---- MODULE Spec2Model ----
(***************************************************************************)
(* Appointment dialog of tg-med-bot: the booking conversation              *)
(* (handlers/create_step_handler.py, wired in                              *)
(* bot/telegram_bot_initializer.py) and the edit / delete conversations    *)
(* (handlers/edit_handler.py, handlers/delete_handler.py), over the        *)
(* backend gateway clients/backend_api_client.py.                          *)
(*                                                                         *)
(* python-telegram-bot keeps one user_data dict and one conversation state  *)
(* per user and handles the updates one at a time.  conv_state, user_data,  *)
(* keyboard and shown are those of the user whose updates are handled; the  *)
(* other users' are in stored.  Every action below is the handling of one   *)
(* update, from the dispatch by ConversationHandler to the handler's        *)
(* return (or raise).                                                       *)
(*                                                                         *)
(* Texts are ASCII transliterations of the bot's Russian labels:           *)
(*   "Otmena" = cancel (clinic keyboard), "Nazad (k ...)" = back labels,   *)
(*   "Podtverdit" / "Izmenit" / "Otmenit" = confirm / modify / cancel,     *)
(*   "Da" / "Net" = yes / no, "Zapis #n" = appointment number n.           *)
(***************************************************************************)
EXTENDS Integers, Sequences, FiniteSets, TLC

VARIABLES
    conv_state,     \* ConversationHandler's state of the user ("NONE" = no conversation)
    user_data,      \* context.user_data of the user
    clinics,        \* backend: the clinic cards GET /ClinicCards returns (raw casing)
    appointments,   \* backend: the user's appointments, GET /Appointment/user/{uuid}
    now,            \* the clock, in ticks (TicksPerDay ticks a day)
    keyboard,       \* the keyboard_layout of the last keyboard sent to the user
    shown,          \* the appointment list rendered in the last numbered list sent
    lastMsg,        \* the update handled last: [kind, text]
    out,            \* the replies sent while handling lastMsg, in order
    requests,       \* the mutating backend requests issued while handling lastMsg
    raised,         \* the handler of lastMsg raised (the exception left the handler)
    user,           \* update.effective_user: the user whose update is handled
    stored,         \* the application's per-user store: the conversation state,
                    \* user_data and screen of every user other than `user`
    fetched_for     \* history of the user's session: the arguments of the
                    \* backend queries whose answers user_data holds

vars == <<conv_state, user_data, clinics, appointments, now,
          keyboard, shown, lastMsg, out, requests, raised, user, stored,
          fetched_for>>

-----------------------------------------------------------------------------
(* Bounds of the model *)

\* the longest list of options a keyboard is built for
MaxOptions == 5

\* the clock stops advancing at this tick
MaxNow == 2
\* how many appointments the backend holds for the user at most
MaxAppointments == 2

\* range(14) in prompt_date / prompt_edit_appointment_date
DateWindow == 14
\* timedelta(days=14) in prompt_date's test of the prefilled date
PrefillMaxDays == 14

-----------------------------------------------------------------------------
(* Optional values: <<>> is "key absent" / None, <<v>> is the value v *)

None == <<>>
Some(v) == <<v>>
IsSet(o) == o # <<>>
Val(o) == o[1]

Range(s) == {s[i] : i \in 1..Len(s)}

RECURSIVE Flatten(_)
Flatten(rows) == IF rows = <<>> THEN <<>> ELSE Head(rows) \o Flatten(Tail(rows))

-----------------------------------------------------------------------------
(* Text conversions *)

\* str.title() on the names the backend holds
title(s) ==
    CASE s = "north clinic"  -> "North Clinic"
      [] s = "SOUTH CLINIC"  -> "South Clinic"
      [] s = "therapist"     -> "Therapist"
      [] s = "ivanov"        -> "Ivanov"
      [] s = "PETROV"        -> "Petrov"
      [] OTHER               -> s

\* str.lower()
lower(s) ==
    CASE s \in {"north clinic", "North Clinic"}  -> "north clinic"
      [] s \in {"SOUTH CLINIC", "South Clinic"}  -> "south clinic"
      [] s \in {"therapist", "Therapist"}        -> "therapist"
      [] s \in {"ivanov", "Ivanov"}              -> "ivanov"
      [] s \in {"PETROV", "Petrov"}              -> "petrov"
      [] OTHER                                   -> s

\* date.strftime("%Y-%m-%d") of day number d (day 0 is 2025-01-01)
DateStrings ==
    << "2025-01-01", "2025-01-02", "2025-01-03", "2025-01-04", "2025-01-05",
       "2025-01-06", "2025-01-07", "2025-01-08", "2025-01-09", "2025-01-10",
       "2025-01-11", "2025-01-12", "2025-01-13", "2025-01-14", "2025-01-15",
       "2025-01-16", "2025-01-17", "2025-01-18" >>

Days == 0 .. (Len(DateStrings) - 1)

strftime_date(d) == DateStrings[d + 1]

\* datetime.strptime(s, "%Y-%m-%d"): Some(day), or None for ValueError
strptime_date(s) ==
    IF \E d \in Days : strftime_date(d) = s
    THEN Some(CHOOSE d \in Days : strftime_date(d) = s)
    ELSE None

\* the times of day "HH:MM", one per tick of a day
TimeStrings == << "09:00", "15:00" >>

\* ticks per calendar day: the clock is read at the bookable times of day
TicksPerDay == Len(TimeStrings)

TimesOfDay == 0 .. (TicksPerDay - 1)

\* date.today()
Today == now \div TicksPerDay

strftime_time(t) == TimeStrings[t + 1]

\* datetime.strptime(s, "%H:%M"): Some(tick of day), or None for ValueError
strptime_time(s) ==
    IF \E t \in TimesOfDay : strftime_time(t) = s
    THEN Some(CHOOSE t \in TimesOfDay : strftime_time(t) = s)
    ELSE None

\* datetime.combine(date_obj, time_obj) as a tick count, comparable with now
combine(d, t) == d * TicksPerDay + t

\* dt.strftime("%Y-%m-%dT%H:%M:%S")
strftime_iso(dt) ==
    strftime_date(dt \div TicksPerDay) \o "T" \o strftime_time(dt % TicksPerDay) \o ":00"

Datetimes == 0 .. (Len(DateStrings) * TicksPerDay - 1)

\* datetime.fromisoformat(s) as a tick count
fromisoformat(s) == CHOOSE dt \in Datetimes : strftime_iso(dt) = s

\* time_str[:5] for the strings of a timeslot response; None when len < 5
first5(s) ==
    CASE s = "09:00:00" -> Some("09:00")
      [] s = "15:00"    -> Some("15:00")
      [] s = "9:00:00"  -> Some("9:00:")
      [] s = "9:00"     -> None
      [] OTHER          -> Some(s)

-----------------------------------------------------------------------------
(* user_data *)

EmptyDraft ==
    [ clinic                   |-> None,   \* clinic_id and clinic_name
      specialization           |-> None,   \* specialization_id and specialization_name
      doctor                   |-> None,   \* doctor_id and doctor_name
      chosen_date_str          |-> None,
      appointment_datetime_iso |-> None ]

EmptyPrefill ==
    [ clinic |-> None, specialization |-> None, doctor |-> None,
      date |-> None, time |-> None ]

EmptyEdit == [ new_date |-> None, new_time |-> None ]

\* user_data after context.user_data.clear()
EmptyUserData ==
    [ create_appointment_data |-> None,
      prefilled_info          |-> None,
      temp_clinics_list       |-> <<>>,
      temp_specs_list         |-> <<>>,
      temp_doctors_list       |-> <<>>,
      temp_available_times    |-> <<>>,
      selected_appointment    |-> None,
      edit_appointment_data   |-> None,
      delete_appointment_data |-> None ]

\* context.user_data["create_appointment_data"]
Draft(ud) == Val(ud.create_appointment_data)

\* fetched_for when user_data holds no answer of a query:
\*   doctors  the clinic and specialization get_specific_doctors was called
\*            with for the list in _temp_doctors_list,
\*   doctor   the same for the list the draft's doctor was picked from,
\*   times    the doctor and date get_doctor_working_hours was called with
\*            for the list in _temp_available_times, and that list,
\*   time     the same for the list the draft's time was picked from
NothingFetched ==
    [ doctors |-> None, doctor |-> None, times |-> None, time |-> None ]

-----------------------------------------------------------------------------
(* The handling of one update: what the handler has done so far.           *)
(*   ud  user_data, out  replies sent, req  backend requests issued,       *)
(*   kb  the last keyboard sent, sh  the last appointment list rendered,   *)
(*   appts  the backend's appointments of the user,                        *)
(*   ff  the history fetched_for,                                          *)
(*   ret what the handler returns: a state, "END", "KEEP" (returns None)   *)
(*       or "RAISE" (an exception leaves the handler).                     *)

Begin ==
    [ ud |-> user_data, out |-> <<>>, req |-> <<>>, kb |-> keyboard,
      sh |-> shown, appts |-> appointments, ret |-> "KEEP", ff |-> fetched_for ]

\* update.effective_message.reply_text(text)
reply_text(c, m) == [c EXCEPT !.out = Append(@, m)]

\* reply_text(text, reply_markup=keyboard)
reply_keyboard(c, m, k) == [c EXCEPT !.out = Append(@, m), !.kb = k]

return(c, r) == [c EXCEPT !.ret = r]

\* a variant of the escaping exception that also puts user_data back to what
\* it was when the update arrived (what C22 tells apart from the source, where
\* the writes made before the exception stay)
raise_restoring_session(c) == [c EXCEPT !.ret = "RAISE", !.ud = user_data]

raise(c) == [c EXCEPT !.ret = "RAISE"]

\* a variant of the slot write that starts from an empty draft, losing the
\* slots written by earlier steps (what C20 tells apart from the source's write)
SetDraft_into_empty_draft(c, slot, v) ==
    [c EXCEPT !.ud.create_appointment_data = Some([EmptyDraft EXCEPT ![slot] = v])]

SetDraft(c, slot, v) ==
    [c EXCEPT !.ud.create_appointment_data = Some([Draft(c.ud) EXCEPT ![slot] = v])]

\* ReplyKeyboardRemove()
ReplyKeyboardRemove == <<>>

RECURSIVE Chunks(_, _)
Chunks(s, n) ==
    IF s = <<>> THEN <<>>
    ELSE IF Len(s) <= n THEN <<s>>
    ELSE <<SubSeq(s, 1, n)>> \o Chunks(SubSeq(s, n + 1, Len(s)), n)

\* a variant of _create_keyboard that puts the back button at the end of the
\* last row of options (what C28 tells apart from the source's layout)
create_keyboard_back_in_last_row(options, items_per_row, add_back_button, back_button_text) ==
    Chunks(IF add_back_button THEN Append(options, back_button_text)
           ELSE options,
           items_per_row)

\* _create_keyboard: the keyboard_layout
create_keyboard(options, items_per_row, add_back_button, back_button_text) ==
    Chunks(options, items_per_row)
        \o (IF add_back_button THEN << <<back_button_text>> >> ELSE <<>>)

-----------------------------------------------------------------------------
(* Backend gateway (clients/backend_api_client.py).  A call either returns *)
(* a value or raises (raise_for_status, connection error): [ok, val].      *)
(* The backend's answer to one update's calls is the record o:             *)
(*   o.clinics_ok  the clinic call succeeds (its data is the variable      *)
(*                 clinics), o.specs, o.doctors, o.times  the raw answers  *)
(*   to the speciality, doctor and timeslot calls, o.post  how POST        *)
(*   /Appointment ends, o.user  the db holds a document of the user.       *)

Ok(v) == [ok |-> TRUE, val |-> v]
Err == [ok |-> FALSE, val |-> <<>>]

MapSeq(s, F(_)) == [i \in 1..Len(s) |-> F(s[i])]

TitleClinic(clinic) == [clinic EXCEPT !.name = title(@)]

\* get_clinic_cards: every clinic, names title-cased
get_clinic_cards(o) ==
    IF o.clinics_ok THEN Ok(MapSeq(clinics, TitleClinic)) ELSE Err

\* get_clinic_by_name: GET ClinicCards/name/{name.lower()}, names title-cased
get_clinic_by_name(name, o) ==
    IF o.clinics_ok
    THEN Ok(MapSeq(SelectSeq(clinics, LAMBDA k : lower(k.name) = lower(name)),
                   TitleClinic))
    ELSE Err

\* get_specializations: {"id": index, "name": spec_name.title()} per string
get_specializations(o) ==
    IF o.specs.ok
    THEN Ok([i \in 1..Len(o.specs.val) |->
                [id |-> i - 1, name |-> title(o.specs.val[i])]])
    ELSE Err

TitleDoctor(doctor) == [doctor EXCEPT !.name = title(@)]

\* get_specific_doctors: the doctor cards, names title-cased
get_specific_doctors(o) ==
    IF o.doctors.ok THEN Ok(MapSeq(o.doctors.val, TitleDoctor)) ELSE Err

\* get_doctor_working_hours: time_str[:5] of every string of length >= 5
get_doctor_working_hours(o) ==
    IF o.times.ok
    THEN Ok(MapSeq(SelectSeq(o.times.val, LAMBDA t : first5(t) # None),
                   LAMBDA t : Val(first5(t))))
    ELSE Err

\* the f"{date}T{time}" the prompts parse with '%Y-%m-%dT%H:%M' when the
\* prefill holds both: TRUE when strptime raises ValueError
PrefilledDatetimeBad(prefilled_info) ==
    /\ IsSet(prefilled_info.date) /\ IsSet(prefilled_info.time)
    /\ \/ strptime_date(Val(prefilled_info.date)) = None
       \/ strptime_time(Val(prefilled_info.time)) = None

-----------------------------------------------------------------------------
(* Booking flow: handlers/create_step_handler.py *)

Names(cards) == MapSeq(cards, LAMBDA k : k.name)

\* the first card of the list whose name is the reply, as an optional value
FindByName(cards, text) ==
    IF \E i \in 1..Len(cards) : cards[i].name = text
    THEN Some(cards[CHOOSE i \in 1..Len(cards) :
                     /\ cards[i].name = text
                     /\ \A j \in 1..(i - 1) : cards[j].name # text])
    ELSE None

\* BackendApiClient().get(endpoint): the query is sent
get(c, endpoint) ==
    [c EXCEPT !.req = Append(@, [method |-> "GET", endpoint |-> endpoint])]

\* ---- Step 1: clinic
\* a variant of the clinic prompt that adds the fetched clinics to the list
\* already stored instead of replacing it (what C29 tells apart from the
\* source's prompt)
prompt_clinic_extending_list(c, o) ==
    IF c.ud.prefilled_info = None THEN raise(c)
    ELSE
    LET prefilled_clinic == Val(c.ud.prefilled_info).clinic
        got == IF IsSet(prefilled_clinic)
               THEN get_clinic_by_name(Val(prefilled_clinic), o)
               ELSE get_clinic_cards(o)
        c1 == get(c, IF IsSet(prefilled_clinic) THEN "ClinicCards/name"
                     ELSE "ClinicCards/")
    IN  IF ~got.ok THEN raise(c1)
        ELSE IF got.val = <<>>
        THEN return(reply_text(c1, "no clinics available"), "END")
        ELSE return(
               reply_keyboard([c1 EXCEPT !.ud.temp_clinics_list = @ \o got.val],
                              "choose clinic",
                              create_keyboard(Names(got.val), 1, TRUE, "Otmena")),
               "CHOOSE_CLINIC")

\* a variant of the clinic prompt that, finding no clinic, informs the user
\* and waits in the clinic step (what C39 tells apart from the source's END)
prompt_clinic_waiting_on_empty(c, o) ==
    IF c.ud.prefilled_info = None THEN raise(c)
    ELSE
    LET prefilled_clinic == Val(c.ud.prefilled_info).clinic
        got == IF IsSet(prefilled_clinic)
               THEN get_clinic_by_name(Val(prefilled_clinic), o)
               ELSE get_clinic_cards(o)
        c1 == get(c, IF IsSet(prefilled_clinic) THEN "ClinicCards/name"
                     ELSE "ClinicCards/")
    IN  IF ~got.ok THEN raise(c1)
        ELSE IF got.val = <<>>
        THEN return(reply_text(c1, "no clinics available"), "CHOOSE_CLINIC")
        ELSE return(
               reply_keyboard([c1 EXCEPT !.ud.temp_clinics_list = got.val],
                              "choose clinic",
                              create_keyboard(Names(got.val), 1, TRUE, "Otmena")),
               "CHOOSE_CLINIC")

prompt_clinic(c, o) ==
    IF c.ud.prefilled_info = None THEN raise(c)   \* KeyError
    ELSE
    LET prefilled_clinic == Val(c.ud.prefilled_info).clinic
        got == IF IsSet(prefilled_clinic)
               THEN get_clinic_by_name(Val(prefilled_clinic), o)
               ELSE get_clinic_cards(o)
        c1 == get(c, IF IsSet(prefilled_clinic) THEN "ClinicCards/name"
                     ELSE "ClinicCards/")
    IN  IF ~got.ok THEN raise(c1)
        ELSE IF got.val = <<>>
        THEN return(reply_text(c1, "no clinics available"), "END")
        ELSE return(
               reply_keyboard([c1 EXCEPT !.ud.temp_clinics_list = got.val],
                              "choose clinic",
                              create_keyboard(Names(got.val), 1, TRUE, "Otmena")),
               "CHOOSE_CLINIC")

\* ---- Step 2: specialization
\* a variant of the specialization prompt that ends the conversation when
\* the backend returns no specialization (what C11 tells apart from the
\* source's fallback)
prompt_specialization_ends_on_empty(c, o) ==
    IF c.ud.create_appointment_data = None \/ c.ud.prefilled_info = None
    THEN raise(c)
    ELSE IF PrefilledDatetimeBad(Val(c.ud.prefilled_info)) THEN raise(c)
    ELSE
    LET got == get_specializations(o)
        c1 == get(c, "DoctorCards/specific")
    IN  IF ~got.ok THEN raise(c1)
        ELSE IF got.val = <<>>
        THEN return(reply_text(c1, "no specializations"), "END")
        ELSE return(
               reply_keyboard([c1 EXCEPT !.ud.temp_specs_list = got.val],
                              "choose specialization",
                              create_keyboard(Names(got.val), 3, TRUE,
                                              "Nazad (k klinike)")),
               "CHOOSE_SPECIALIZATION")

\* a variant of the specialization prompt that, finding no specialization,
\* asks the backend once more before it gives up (what C38 tells apart from
\* the source's fallback to the clinic prompt)
prompt_specialization_retrying(c, o) ==
    IF c.ud.create_appointment_data = None \/ c.ud.prefilled_info = None
    THEN raise(c)
    ELSE IF PrefilledDatetimeBad(Val(c.ud.prefilled_info)) THEN raise(c)
    ELSE
    LET got == get_specializations(o)
        c1 == get(c, "DoctorCards/specific")
    IN  IF ~got.ok THEN raise(c1)
        ELSE IF got.val = <<>>
        THEN prompt_specialization_ends_on_empty(
                 reply_text(c1, "no specializations"), o)
        ELSE return(
               reply_keyboard([c1 EXCEPT !.ud.temp_specs_list = got.val],
                              "choose specialization",
                              create_keyboard(Names(got.val), 3, TRUE,
                                              "Nazad (k klinike)")),
               "CHOOSE_SPECIALIZATION")

prompt_specialization(c, o) ==
    IF c.ud.create_appointment_data = None \/ c.ud.prefilled_info = None
    THEN raise(c)   \* KeyError
    ELSE IF PrefilledDatetimeBad(Val(c.ud.prefilled_info)) THEN raise(c)
    ELSE
    LET got == get_specializations(o)
        c1 == get(c, "DoctorCards/specific")
    IN  IF ~got.ok THEN raise(c1)
        ELSE IF got.val = <<>>
        THEN prompt_clinic(reply_text(c1, "no specializations"), o)
        ELSE return(
               reply_keyboard([c1 EXCEPT !.ud.temp_specs_list = got.val],
                              "choose specialization",
                              create_keyboard(Names(got.val), 3, TRUE,
                                              "Nazad (k klinike)")),
               "CHOOSE_SPECIALIZATION")

\* ---- Step 3: doctor
\* a variant of the doctor prompt that takes the first doctor of the list
\* itself and asks for the date (what C37 tells apart from the source's
\* prompt, which waits for the reply in the doctor step)
prompt_doctor_taking_first(c, o) ==
    IF c.ud.create_appointment_data = None \/ c.ud.prefilled_info = None
    THEN raise(c)
    ELSE
    LET got == get_specific_doctors(o)
        c1 == get(c, "DoctorCards/specific")
    IN  IF ~got.ok THEN raise(c1)
        ELSE IF got.val = <<>>
        THEN prompt_specialization(reply_text(c1, "no doctors"), o)
        ELSE return(reply_text(SetDraft(c1, "doctor", Some(got.val[1])),
                               "choose date"),
                    "CHOOSE_DATE")

prompt_doctor(c, o) ==
    IF c.ud.create_appointment_data = None \/ c.ud.prefilled_info = None
    THEN raise(c)   \* KeyError
    ELSE IF PrefilledDatetimeBad(Val(c.ud.prefilled_info)) THEN raise(c)
    ELSE
    LET got == get_specific_doctors(o)
        c1 == get(c, "DoctorCards/specific")
    IN  IF ~got.ok THEN raise(c1)
        ELSE IF got.val = <<>>
        THEN prompt_specialization(reply_text(c1, "no doctors"), o)
        ELSE return(
               reply_keyboard(
                   [c1 EXCEPT !.ud.temp_doctors_list = got.val,
                              !.ff.doctors =
                                  Some([clinic |-> Draft(c.ud).clinic,
                                        specialization |->
                                            Draft(c.ud).specialization])],
                              "choose doctor",
                              create_keyboard(Names(got.val), 1, TRUE,
                                              "Nazad (k specializacii)")),
               "CHOOSE_DOCTOR")

\* ---- Step 4: date
\* the 14 dates from today on, as strings
dates_next_two_weeks == [i \in 1..DateWindow |-> strftime_date(Today + i - 1)]

prompt_date(c) ==
    IF c.ud.prefilled_info = None THEN raise(c)   \* KeyError
    ELSE
    LET prefilled_date == Val(c.ud.prefilled_info).date
        parsed == IF IsSet(prefilled_date)
                  THEN strptime_date(Val(prefilled_date)) ELSE None
        prefilled_date_obj ==
            IF IsSet(parsed)
               /\ (Val(parsed) > Today + PrefillMaxDays \/ Val(parsed) < Today)
            THEN None ELSE parsed
    IN  IF IsSet(prefilled_date) /\ parsed = None THEN raise(c)   \* ValueError
        ELSE IF IsSet(prefilled_date_obj)
        THEN return(reply_keyboard(c, "choose date",
                       create_keyboard(<<strftime_date(Val(prefilled_date_obj))>>,
                                       1, TRUE, "Nazad (k vrachu)")),
                    "CHOOSE_DATE")
        ELSE return(reply_keyboard(c, "choose date",
                       create_keyboard(dates_next_two_weeks, 3, TRUE,
                                       "Nazad (k vrachu)")),
                    "CHOOSE_DATE")

\* ---- Step 6: confirmation (prompt)
\* a variant of the confirmation prompt that sends the text without the
\* keyboard of the three options (what C15 tells apart from the source's
\* prompt)
prompt_confirmation_without_keyboard(c) ==
    IF c.ud.create_appointment_data = None THEN raise(c)
    ELSE return(reply_text(c, "confirm appointment"), "CONFIRMATION")

prompt_confirmation(c) ==
    IF c.ud.create_appointment_data = None THEN raise(c)   \* KeyError
    ELSE return(reply_keyboard(c, "confirm appointment",
                   create_keyboard(<<"Podtverdit", "Izmenit", "Otmenit">>, 3,
                                   FALSE, "Nazad")),
                "CONFIRMATION")

\* a variant of cancel that leaves user_data as it is (what C13 tells apart
\* from the source's cancel)
cancel_keeps_session(c) ==
    return(reply_keyboard(c, "creation cancelled", ReplyKeyboardRemove), "END")

\* cancel: reply, user_data.clear(), END
cancel(c) ==
    return([reply_keyboard(c, "creation cancelled", ReplyKeyboardRemove)
              EXCEPT !.ud = EmptyUserData],
           "END")

\* start_appointment_creation(update, context, prefilled_data)
start_appointment_creation(c, prefilled_data, o) ==
    prompt_clinic(
        [c EXCEPT !.ud = [EmptyUserData EXCEPT
                            !.create_appointment_data = Some(EmptyDraft),
                            !.prefilled_info = Some(prefilled_data)]],
        o)

\* the back branches: pop the slot of the step gone back to, then its prompt
back_to_clinic(c, o) == prompt_clinic(SetDraft(c, "clinic", None), o)

\* a variant of the doctor step's back branch that leaves the specialization
\* in the draft (what C3 tells apart from the source's branch)
back_to_specialization_keeps_slot(c, o) == prompt_specialization(c, o)

back_to_specialization(c, o) ==
    prompt_specialization(SetDraft(c, "specialization", None), o)

back_to_doctor(c, o) == prompt_doctor(SetDraft(c, "doctor", None), o)

back_to_date(c) ==
    prompt_date([SetDraft(c, "chosen_date_str", None)
                   EXCEPT !.ud.temp_available_times = <<>>])

process_clinic_choice(c, text, o) ==
    IF c.ud.create_appointment_data = None THEN raise(c)   \* KeyError
    ELSE IF text = "Otmena" THEN cancel(c)
    ELSE
    LET selected_clinic == FindByName(c.ud.temp_clinics_list, text)
    IN  IF selected_clinic = None
        THEN prompt_clinic(reply_text(c, "choose a clinic from the list"), o)
        ELSE prompt_specialization(
               [SetDraft(c, "clinic", selected_clinic)
                  EXCEPT !.ud.temp_clinics_list = <<>>],
               o)

process_specialization_choice(c, text, o) ==
    IF c.ud.create_appointment_data = None THEN raise(c)   \* KeyError
    ELSE IF text = "Nazad (k klinike)"
    THEN back_to_clinic(c, o)
    ELSE
    LET selected_spec == FindByName(c.ud.temp_specs_list, text)
    IN  IF selected_spec = None
        THEN prompt_specialization(
               reply_text(c, "choose a specialization from the list"), o)
        ELSE prompt_doctor(
               [SetDraft(c, "specialization", selected_spec)
                  EXCEPT !.ud.temp_specs_list = <<>>],
               o)

process_doctor_choice(c, text, o) ==
    IF c.ud.create_appointment_data = None THEN raise(c)   \* KeyError
    ELSE IF text = "Nazad (k specializacii)"
    THEN back_to_specialization(c, o)
    ELSE
    LET selected_doc == FindByName(c.ud.temp_doctors_list, text)
    IN  IF selected_doc = None
        THEN prompt_doctor(reply_text(c, "choose a doctor from the list"), o)
        ELSE prompt_date(
               [SetDraft(c, "doctor", selected_doc)
                  EXCEPT !.ud.temp_doctors_list = <<>>,
                         !.ff.doctor = c.ff.doctors])

\* a variant of the write of the chosen date that keeps a date the draft
\* already holds (what C32 tells apart from the source's assignment)
store_chosen_date_unless_present(c, text) ==
    IF IsSet(Draft(c.ud).chosen_date_str) THEN c
    ELSE SetDraft(c, "chosen_date_str", Some(text))

\* appointment_data["chosen_date_str"] = chosen_date_str
store_chosen_date(c, text) == SetDraft(c, "chosen_date_str", Some(text))

process_date_choice(c, text, o) ==
    IF c.ud.create_appointment_data = None THEN raise(c)   \* KeyError
    ELSE IF text = "Nazad (k vrachu)"
    THEN back_to_doctor(c, o)
    ELSE IF strptime_date(text) = None
    THEN prompt_date(reply_text(c, "bad date format, choose an offered one"))
    ELSE
    LET c0 == store_chosen_date(c, text)
        c1 == get(c0, "DoctorCards/timeslots")
        got == get_doctor_working_hours(o)
        prefilled_time == IF c1.ud.prefilled_info = None THEN None
                          ELSE Val(c1.ud.prefilled_info).time
        times == IF IsSet(prefilled_time) /\ Val(prefilled_time) \in Range(got.val)
                 THEN <<Val(prefilled_time)>> ELSE got.val
    IN  IF c0.ud.prefilled_info = None THEN raise(c0)   \* KeyError
        ELSE IF ~got.ok THEN raise(c1)
        ELSE IF got.val = <<>>
        THEN prompt_date(SetDraft(reply_text(c1, "no time on this date"),
                                  "chosen_date_str", None))
        ELSE return(
               reply_keyboard(
                   [c1 EXCEPT !.ud.temp_available_times = got.val,
                              !.ff.times =
                                  Some([doctor |-> Draft(c.ud).doctor,
                                        date |-> text, times |-> got.val])],
                              "choose time",
                              create_keyboard(times, 3, TRUE, "Nazad (k date)")),
               "CHOOSE_TIME")

\* ---- Step 5: time
\* a variant of the elapsed branch that asks for the time again (what C14
\* tells apart from the source's branch)
reject_elapsed_asks_time_again(c) ==
    return(reply_keyboard(reply_text(c, "date and time already passed"),
                          "choose time",
                          create_keyboard(c.ud.temp_available_times, 3, TRUE,
                                          "Nazad (k date)")),
           "CHOOSE_TIME")

\* the branch dt_object_combined < datetime.now(): reply, drop the stored
\* times, prompt for the date
reject_elapsed(c) ==
    prompt_date([reply_text(c, "date and time already passed")
                   EXCEPT !.ud.temp_available_times = <<>>])

process_time_choice(c, text) ==
    IF c.ud.create_appointment_data = None THEN raise(c)   \* KeyError
    ELSE IF text = "Nazad (k date)"
    THEN back_to_date(c)
    ELSE
    LET available_times == c.ud.temp_available_times
        again(m) == return(reply_keyboard(reply_text(c, m), "choose time",
                              create_keyboard(available_times, 3, TRUE,
                                              "Nazad (k date)")),
                           "CHOOSE_TIME")
        chosen_date_str == Draft(c.ud).chosen_date_str
        date_obj == strptime_date(Val(chosen_date_str))
        time_obj == strptime_time(text)
        dt_object_combined == combine(Val(date_obj), Val(time_obj))
    IN  IF text \notin Range(available_times)
        THEN again("choose a time from the list")
        ELSE IF chosen_date_str = None THEN raise(c)   \* KeyError
        ELSE IF date_obj = None \/ time_obj = None      \* ValueError
        THEN again("bad format, choose from the list")
        ELSE IF dt_object_combined < now
        THEN reject_elapsed(c)
        ELSE \* user_data.pop("chosen_date_str", None) follows in the code: the key
             \* lives in appointment_data, never in user_data, so nothing is removed
             prompt_confirmation(
               [SetDraft(c, "appointment_datetime_iso",
                         Some(strftime_iso(dt_object_combined)))
                  EXCEPT !.ud.temp_available_times = <<>>,
                         !.ff.time = c.ff.times])

\* ---- Step 6: confirmation (process)
\* BackendApiClient().post_appointment(request_body); sentAt is the clock at the call
post_appointment(c, body) ==
    [c EXCEPT !.req = Append(@, [method |-> "POST", body |-> body, sentAt |-> now])]

process_confirmation(c, text, o) ==
    IF text = "Podtverdit"
    THEN IF ~o.user THEN raise(c)   \* get_user_fullname: None.get
         ELSE IF c.ud.create_appointment_data = None THEN raise(c)
         ELSE IF Draft(c.ud).appointment_datetime_iso = None
                 \/ Draft(c.ud).doctor = None
         THEN raise(c)   \* KeyError
         ELSE
         LET request_body ==
                 [ phone           |-> "+7(999)999-99-99",
                   appointmentTime |-> Val(Draft(c.ud).appointment_datetime_iso),
                   doctorId        |-> Val(Draft(c.ud).doctor).doctorId ]
             c1 == post_appointment(c, request_body)
             c2 == IF o.post = "created"
                   THEN reply_text(
                          reply_keyboard(c1, "appointment created",
                                         ReplyKeyboardRemove),
                          "appointment details")
                   ELSE reply_keyboard(c1, "could not create, try later",
                                       ReplyKeyboardRemove)
         IN  IF o.post = "error" THEN raise(c1)   \* raise_for_status
             ELSE return([c2 EXCEPT !.ud = EmptyUserData], "END")
    ELSE IF text = "Izmenit"
    THEN IF c.ud.create_appointment_data = None
         THEN raise(reply_text(c, "let us change the details"))
         ELSE prompt_date(SetDraft(reply_text(c, "let us change the details"),
                                   "appointment_datetime_iso", None))
    ELSE IF text = "Otmenit" THEN cancel(c)
    ELSE prompt_confirmation(reply_text(c, "choose one of the options"))

-----------------------------------------------------------------------------
(* What the environment can send and answer *)

Clinic1 == [clinicId |-> 1, name |-> "north clinic"]
Clinic2 == [clinicId |-> 2, name |-> "SOUTH CLINIC"]
ClinicLists == { <<>>, <<Clinic1, Clinic2>> }

Doctor1 == [doctorId |-> 1, name |-> "ivanov"]
Doctor2 == [doctorId |-> 2, name |-> "PETROV"]

SpecResponses == { Err, Ok(<<>>), Ok(<<"therapist">>) }
DoctorResponses == { Err, Ok(<<>>), Ok(<<Doctor1, Doctor2>>) }
TimeResponses ==
    { Err, Ok(<<>>), Ok(<<"9:00">>), Ok(<<"09:00:00", "15:00", "9:00", "9:00:00">>) }
PostResponses == { "created", "empty", "error" }

\* the days whose date string the user types
TypedDays == { 0, DateWindow }

\* The replies the user sends in a state: every string the state's handler
\* compares the reply with or can parse (the labels and list entries of the
\* state's keyboards, the date strings of TypedDays, the time strings), and
\* "privet" for any other text: the handlers only test the reply for equality
\* with labels and list entries, and parse it as a date or a time.
StateTexts(state) ==
    CASE state = "CHOOSE_CLINIC" -> { "North Clinic", "South Clinic", "Otmena" }
      [] state = "CHOOSE_SPECIALIZATION" ->
            { "Therapist", "Nazad (k klinike)" }
      [] state = "CHOOSE_DOCTOR" ->
            { "Ivanov", "Petrov", "Nazad (k specializacii)" }
      [] state = "CHOOSE_DATE" ->
            { strftime_date(d) : d \in TypedDays } \cup { "Nazad (k vrachu)" }
      [] state = "CHOOSE_TIME" -> { "09:00", "15:00", "9:00:", "Nazad (k date)" }
      [] state = "CONFIRMATION" ->
            { "Podtverdit", "Izmenit", "Otmenit", "podtverdit" }
      [] OTHER -> {}

Texts(state) == StateTexts(state) \cup { "privet" }

\* the backend answers every call of the update
O0 == [clinics_ok |-> TRUE, specs |-> Err, doctors |-> Err, times |-> Err,
       post |-> "error", user |-> TRUE]
\* answers to a prompt chain that starts at the clinic prompt
O1 == { [O0 EXCEPT !.clinics_ok = b] : b \in BOOLEAN }
\* ... at the specialization prompt (the clinic call is made only on no specs)
O2 == { [O0 EXCEPT !.specs = r] : r \in SpecResponses \ {Ok(<<>>)} }
        \cup { [o EXCEPT !.specs = Ok(<<>>)] : o \in O1 }
\* ... at the doctor prompt
O3 == { [O0 EXCEPT !.doctors = r] : r \in DoctorResponses \ {Ok(<<>>)} }
        \cup { [o EXCEPT !.doctors = Ok(<<>>)] : o \in O2 }
OT == { [O0 EXCEPT !.times = r] : r \in TimeResponses }
OP == { [O0 EXCEPT !.post = r] : r \in PostResponses }
        \cup { [O0 EXCEPT !.user = FALSE] }

\* the backend calls the handler of the state can reach on this reply
Oracles(state, text) ==
    CASE state = "CHOOSE_CLINIC" ->
            IF text = "Otmena" THEN {O0}
            ELSE IF FindByName(user_data.temp_clinics_list, text) # None THEN O2
            ELSE O1
      [] state = "CHOOSE_SPECIALIZATION" ->
            IF text = "Nazad (k klinike)" THEN O1
            ELSE IF FindByName(user_data.temp_specs_list, text) # None THEN O3
            ELSE O2
      [] state = "CHOOSE_DOCTOR" ->
            IF text = "Nazad (k specializacii)" THEN O2
            ELSE IF FindByName(user_data.temp_doctors_list, text) # None THEN {O0}
            ELSE O3
      [] state = "CHOOSE_DATE" ->
            IF text = "Nazad (k vrachu)" THEN O3
            ELSE IF strptime_date(text) = None THEN {O0}
            ELSE OT
      [] state = "CONFIRMATION" ->
            IF text = "Podtverdit" THEN OP ELSE {O0}
      [] OTHER -> {O0}

-----------------------------------------------------------------------------
(* Dispatch (python-telegram-bot ConversationHandler): the handler's return *)
(* value becomes the state; END leaves the conversation; None keeps the     *)
(* state; when the handler raises, the state is kept as well, and whatever  *)
(* the handler wrote to user_data before raising stays written.             *)

Msg(kind, text) == [kind |-> kind, text |-> text]

\* the users of the bot
Users == { "A", "B" }

\* what the application keeps for a user: ConversationHandler's state and
\* context.user_data, and with them the user's screen
EmptySession ==
    [ conv_state |-> "NONE", user_data |-> EmptyUserData,
      keyboard |-> <<>>, shown |-> <<>>, fetched_for |-> NothingFetched ]

\* the history of what user_data holds when the handler is done: nothing is
\* remembered of a list or a slot that user_data holds no more
FetchedFor(c) ==
    LET draft == c.ud.create_appointment_data
    IN  [ doctors |-> IF c.ud.temp_doctors_list = <<>> THEN None
                      ELSE c.ff.doctors,
          doctor  |-> IF draft = None \/ Val(draft).doctor = None THEN None
                      ELSE c.ff.doctor,
          times   |-> IF c.ud.temp_available_times = <<>> THEN None
                      ELSE c.ff.times,
          time    |-> IF draft = None
                         \/ Val(draft).appointment_datetime_iso = None THEN None
                      ELSE c.ff.time ]

NextState(c) ==
    CASE c.ret \in {"KEEP", "RAISE"} -> conv_state
      [] c.ret = "END"               -> "NONE"
      [] OTHER                       -> c.ret

\* a variant of the end of an update that writes the handler's user_data
\* into the session of every user, as one dict shared by all users would
\* (what C27 tells apart from the per-user store)
Finish_with_shared_user_data(c, msg) ==
    /\ conv_state' = NextState(c)
    /\ user_data' = c.ud
    /\ keyboard' = c.kb
    /\ shown' = c.sh
    /\ out' = c.out
    /\ requests' = c.req
    /\ raised' = (c.ret = "RAISE")
    /\ lastMsg' = msg
    /\ user' = user
    /\ stored' = [u \in DOMAIN stored |-> [stored[u] EXCEPT !.user_data = c.ud]]
    /\ fetched_for' = FetchedFor(c)

\* the end of an update: the state and the user_data of the update's user
\* are what the handler left; no other user's are touched
Finish(c, msg) ==
    /\ conv_state' = NextState(c)
    /\ user_data' = c.ud
    /\ keyboard' = c.kb
    /\ shown' = c.sh
    /\ out' = c.out
    /\ requests' = c.req
    /\ raised' = (c.ret = "RAISE")
    /\ lastMsg' = msg
    /\ fetched_for' = FetchedFor(c)
    /\ UNCHANGED <<user, stored>>

\* an update no handler of the application takes
Unhandled(msg) ==
    /\ lastMsg' = msg
    /\ out' = <<>> /\ requests' = <<>> /\ raised' = FALSE
    /\ UNCHANGED <<conv_state, user_data, keyboard, shown, user, stored, fetched_for>>

-----------------------------------------------------------------------------
(* Entry points and free text: bot/telegram_bot_initializer.py *)

\* what GoogleService().generate_json_text returns: a dict with this intent,
\* a falsy JSON value ("null", "{}"), or the model call raising ("api_error")
LlmResults ==
    { "book_appointment", "unknown", "other_question", "null", "{}", "api_error" }

\* the free texts the user sends outside a conversation
FreeTexts == { "privet", "zapis v North Clinic" }

\* the "data" of the classifier's answer: the slots it extracts from the text
LlmData(text) ==
    IF text = "zapis v North Clinic"
    THEN [ clinic |-> Some("North Clinic"), specialization |-> None,
           doctor |-> None, date |-> None, time |-> None ]
    ELSE [ clinic |-> None, specialization |-> None, doctor |-> None,
           date |-> None, time |-> None ]

\* generate_json_text(update.message.text): the parsed answer
generate_json_text(text, intent) == [ intent |-> intent, data |-> LlmData(text) ]

\* default_response, after the classifier call and the registration;
\* start_appointment_creation is called without prefilled_data
default_response(c, reply_msg, o) ==
    LET c1 == IF reply_msg.intent \in {"null", "{}"}
              THEN reply_text(c, "could not understand, rephrase") ELSE c
    IN  IF reply_msg.intent = "null" THEN raise(c1)   \* None.get
        ELSE IF reply_msg.intent = "unknown"
        THEN return(reply_text(c1, "cannot understand, rephrase"), "KEEP")
        ELSE IF reply_msg.intent = "book_appointment"
        THEN start_appointment_creation(c1, EmptyPrefill, o)
        ELSE return(reply_text(c1, "request processed"), "KEEP")

\* a text message outside a conversation: entry point default_response
DefaultResponse ==
    /\ conv_state = "NONE"
    /\ \E text \in FreeTexts, intent \in LlmResults, o \in O1 :
          IF intent = "api_error"
          THEN Finish(raise(Begin), Msg("text", text))
          ELSE Finish(default_response(Begin, generate_json_text(text, intent), o),
                      Msg("text", text))
    /\ UNCHANGED <<clinics, appointments, now>>

\* /new_appointment: an entry point, tried only outside a conversation
\* (allow_reentry is not set); inside one no handler takes the command
NewAppointmentCommand ==
    /\ IF conv_state = "NONE"
       THEN \E o \in O1 :
               Finish(start_appointment_creation(Begin, EmptyPrefill, o),
                      Msg("/new_appointment", ""))
       ELSE Unhandled(Msg("/new_appointment", ""))
    /\ UNCHANGED <<clinics, appointments, now>>

\* /cancel: the fallback, tried only inside a conversation
CancelCommand ==
    /\ IF conv_state # "NONE"
       THEN Finish(cancel(Begin), Msg("/cancel", ""))
       ELSE Unhandled(Msg("/cancel", ""))
    /\ UNCHANGED <<clinics, appointments, now>>

\* /start: start_command registers the user and greets
StartCommand ==
    /\ Finish(return(reply_text(Begin, "welcome"), "KEEP"), Msg("/start", ""))
    /\ UNCHANGED <<clinics, appointments, now>>

\* /gettest: gettest_command replies with the user's uuid
GettestCommand ==
    /\ Finish(return(reply_text(Begin, "your uuid"), "KEEP"), Msg("/gettest", ""))
    /\ UNCHANGED <<clinics, appointments, now>>

\* a text message in a state of the booking conversation
Process(state, handler(_, _, _)) ==
    /\ conv_state = state
    /\ \E text \in Texts(state) : \E o \in Oracles(state, text) :
          Finish(handler(Begin, text, o), Msg("text", text))
    /\ UNCHANGED <<clinics, appointments, now>>

ProcessClinicChoice == Process("CHOOSE_CLINIC", process_clinic_choice)
ProcessSpecializationChoice ==
    Process("CHOOSE_SPECIALIZATION", process_specialization_choice)
ProcessDoctorChoice == Process("CHOOSE_DOCTOR", process_doctor_choice)
ProcessDateChoice == Process("CHOOSE_DATE", process_date_choice)
ProcessTimeChoice ==
    Process("CHOOSE_TIME", LAMBDA c, text, o : process_time_choice(c, text))
ProcessConfirmation == Process("CONFIRMATION", process_confirmation)

-----------------------------------------------------------------------------
(* The environment *)

\* time passes
Tick ==
    /\ now < MaxNow
    /\ now' = now + 1
    /\ UNCHANGED <<conv_state, user_data, clinics, appointments,
                   keyboard, shown, lastMsg, out, requests, raised,
                   user, stored, fetched_for>>

\* the backend's clinic set changes
ClinicsChange ==
    /\ \E l \in ClinicLists \ {clinics} : clinics' = l
    /\ UNCHANGED <<conv_state, user_data, appointments, now,
                   keyboard, shown, lastMsg, out, requests, raised,
                   user, stored, fetched_for>>

-----------------------------------------------------------------------------
(* The booking conversation as the application wires it *)

Init ==
    /\ conv_state = "NONE"
    /\ user_data = EmptyUserData
    /\ clinics \in ClinicLists
    /\ appointments = <<>>
    /\ now = 0
    /\ keyboard = <<>>
    /\ shown = <<>>
    /\ lastMsg = Msg("none", "")
    /\ out = <<>>
    /\ requests = <<>>
    /\ raised = FALSE
    /\ user = "A"
    /\ stored = [u \in Users |-> EmptySession]
    /\ fetched_for = NothingFetched

Next ==
    \/ DefaultResponse
    \/ NewAppointmentCommand
    \/ CancelCommand
    \/ StartCommand
    \/ GettestCommand
    \/ ProcessClinicChoice
    \/ ProcessSpecializationChoice
    \/ ProcessDoctorChoice
    \/ ProcessDateChoice
    \/ ProcessTimeChoice
    \/ ProcessConfirmation
    \/ Tick
    \/ ClinicsChange

Spec == Init /\ [][Next]_vars

-----------------------------------------------------------------------------
(* Edit and delete flows: handlers/edit_handler.py, handlers/delete_handler.py. *)
(* The backend's and the user database's answers to one update's calls are   *)
(* the record q: q.uuid  the user has a stored uuid, q.fetch_ok  the         *)
(* appointment query succeeds (its data is the variable appointments),       *)
(* q.cards_ok  the doctor-card and clinic-card queries succeed, q.times  the *)
(* raw answer of the timeslot query, q.put_ok and q.delete_ok  the backend   *)
(* accepts the update and the delete.                                        *)

\* an appointment of the user as the backend returns it
Appt(i) ==
    [ appointmentId   |-> i,
      patientName     |-> "Patient",
      phone           |-> "+7(999)999-99-99",
      doctorId        |-> i,
      appointmentTime |-> strftime_iso(combine(1, 0)) ]

\* f"Zapis #{i + 1}"
OptionLabel(n) ==
    CASE n = 1 -> "Zapis #1"
      [] n = 2 -> "Zapis #2"
      [] n = 3 -> "Zapis #3"
      [] OTHER -> "Zapis #4"

\* "Zapis" in selected_option
ContainsZapis(text) ==
    text \in { "Zapis", "Zapis #1", "Zapis #2", "Zapis #3", "Zapis #4" }

\* int(selected_option.split("#")[1].strip()) - 1; None when it raises
appointment_index(text) ==
    CASE text = "Zapis #1" -> Some(0)
      [] text = "Zapis #2" -> Some(1)
      [] text = "Zapis #3" -> Some(2)
      [] text = "Zapis #4" -> Some(3)
      [] OTHER             -> None

\* BackendApiClient().get_appointments_by_user_uuid(user_uuid)
get_appointments_by_user_uuid(c, q) == IF q.fetch_ok THEN Ok(c.appts) ELSE Err

\* BackendApiClient().delete_appointment(appointmentId, user_uuid)
delete_appointment(c, appointmentId, q) ==
    [c EXCEPT !.req = Append(@, [method |-> "DELETE", id |-> appointmentId,
                                  sentAt |-> now]),
              !.appts = IF q.delete_ok
                        THEN SelectSeq(@, LAMBDA a : a.appointmentId # appointmentId)
                        ELSE @]

\* BackendApiClient().put_appointment(appointment_id, data)
put_appointment(c, appointment_id, data, q) ==
    [c EXCEPT !.req = Append(@, [method |-> "PUT", id |-> appointment_id,
                                  body |-> data, sentAt |-> now]),
              !.appts = IF q.put_ok
                        THEN MapSeq(@, LAMBDA a :
                                 IF a.appointmentId = appointment_id
                                 THEN [a EXCEPT !.appointmentTime =
                                                   data.appointmentTime]
                                 ELSE a)
                        ELSE @]

\* get_doctor_card and get_clinic_card for each of n appointments; the first
\* query raises when the backend fails
RECURSIVE get_cards(_, _, _)
get_cards(c, n, q) ==
    IF ~q.cards_ok THEN get(c, "DoctorCards/id")
    ELSE IF n = 0 THEN c
    ELSE get_cards(get(get(c, "DoctorCards/id"), "ClinicCards/id"), n - 1, q)

\* prompt_appointment_choosing of both handlers; state is the handler's
\* CHOOSE_APPOINTMENT
prompt_appointment_choosing(c, q, state) ==
    IF ~q.uuid THEN return(reply_text(c, "please register"), "KEEP")
    ELSE
    LET got == get_appointments_by_user_uuid(c, q)
        c1 == get(c, "Appointment/user")
        c2 == get_cards(c1, Len(got.val), q)
    IN  IF ~got.ok
        THEN return(reply_text(c1, "error fetching appointments"), "KEEP")
        ELSE IF got.val = <<>>
        THEN return(reply_text(c1, "no appointments"), "KEEP")
        ELSE IF ~q.cards_ok
        THEN return(reply_text(c2, "error fetching appointments"), "KEEP")
        ELSE return(
               reply_keyboard(
                   reply_text([c2 EXCEPT !.sh = got.val], "appointment list"),
                   "choose appointment",
                   create_keyboard([i \in 1..Len(got.val) |-> OptionLabel(i)],
                                   2, TRUE, "Otmena")),
               state)

\* ---- delete flow

delete_cancel(c) ==
    return([reply_keyboard(c, "deletion cancelled", ReplyKeyboardRemove)
              EXCEPT !.ud = EmptyUserData],
           "END")

start_appointment_deletion(c, q) ==
    prompt_appointment_choosing(
        [c EXCEPT !.ud = [EmptyUserData EXCEPT
                            !.delete_appointment_data = Some(<<>>)]],
        q, "DELETE_CHOOSE_APPOINTMENT")

\* a variant of the confirmation prompt that deletes the selected
\* appointment at once, without asking (what C33 tells apart from the
\* source's prompt)
prompt_delete_confirm_deleting(c, q) ==
    IF c.ud.selected_appointment = None THEN raise(c)
    ELSE return(reply_text(delete_appointment(
                               c, Val(c.ud.selected_appointment).appointmentId, q),
                           "appointment deleted"),
                "END")

prompt_delete_confirm(c, q) ==
    IF c.ud.selected_appointment = None THEN raise(c)   \* KeyError
    ELSE IF ~q.cards_ok THEN raise(get_cards(c, 1, q))
    ELSE return(reply_keyboard(get_cards(c, 1, q), "confirm deletion",
                               << <<"Da", "Net">> >>),
                "DELETE_CONFIRMATION")

delete_choose_appointment(c, text, q) ==
    IF ~q.uuid THEN return(reply_text(c, "please register"), "END")
    ELSE IF ~ContainsZapis(text)
    THEN prompt_appointment_choosing(
             reply_text(c, "choose a correct appointment"), q,
             "DELETE_CHOOSE_APPOINTMENT")
    ELSE IF appointment_index(text) = None THEN raise(c)   \* IndexError
    ELSE
    LET appointment_index_ == Val(appointment_index(text))
        got == get_appointments_by_user_uuid(c, q)
        c1 == get(c, "Appointment/user")
    IN  IF ~got.ok THEN raise(c1)
        ELSE IF got.val = <<>>
        THEN return(reply_text(c1, "no appointments"), "END")
        ELSE IF text = "Otmena" THEN delete_cancel(c1)
        ELSE IF appointment_index_ < 0 \/ appointment_index_ >= Len(got.val)
        THEN prompt_appointment_choosing(
                 reply_text(c1, "incorrect choice"), q,
                 "DELETE_CHOOSE_APPOINTMENT")
        ELSE prompt_delete_confirm(
                 [c1 EXCEPT !.ud.selected_appointment =
                               Some(got.val[appointment_index_ + 1])], q)

confirm_delete(c, text, q) ==
    IF text = "Da"
    THEN IF c.ud.selected_appointment = None THEN raise(c)   \* KeyError
         ELSE IF ~q.uuid
         THEN return(reply_text(c, "please register"), "END")
         ELSE LET c1 == delete_appointment(
                            c, Val(c.ud.selected_appointment).appointmentId, q)
              IN  return(reply_text(c1, IF q.delete_ok THEN "appointment deleted"
                                        ELSE "error deleting appointment"),
                         "END")
    ELSE IF text = "Net"
    THEN return([reply_text(c, "deletion cancelled") EXCEPT !.ud = EmptyUserData],
                "END")
    \* returns the coroutine of prompt_delete_confirm without awaiting it: the
    \* prompt does not run and the conversation state becomes that object
    ELSE return(reply_text(c, "answer Da or Net"), "DELETE_COROUTINE")

\* ---- edit flow

EditDraft(ud) == Val(ud.edit_appointment_data)

edit_cancel(c) ==
    return([reply_keyboard(c, "editing cancelled", ReplyKeyboardRemove)
              EXCEPT !.ud = EmptyUserData],
           "END")

start_appointment_editing(c, q) ==
    prompt_appointment_choosing(
        [c EXCEPT !.ud = [EmptyUserData EXCEPT
                            !.edit_appointment_data = Some(EmptyEdit)]],
        q, "EDIT_CHOOSE_APPOINTMENT")

prompt_edit_appointment_date(c) ==
    return(reply_keyboard(c, "choose new date",
               create_keyboard(dates_next_two_weeks, 3, TRUE,
                               "Nazad (k vyboru zapisi)")),
           "EDIT_APPOINTMENT_DATE")

edit_choose_appointment(c, text, q) ==
    IF ~q.uuid THEN return(reply_text(c, "please register"), "END")
    ELSE IF ~ContainsZapis(text)
    THEN prompt_appointment_choosing(
             reply_text(c, "choose a correct appointment"), q,
             "EDIT_CHOOSE_APPOINTMENT")
    ELSE IF appointment_index(text) = None THEN raise(c)   \* IndexError
    ELSE
    LET appointment_index_ == Val(appointment_index(text))
        got == get_appointments_by_user_uuid(c, q)
        c1 == get(c, "Appointment/user")
    IN  IF ~got.ok THEN raise(c1)
        ELSE IF got.val = <<>>
        THEN return(reply_text(c1, "no appointments"), "END")
        ELSE IF text = "Otmena" THEN edit_cancel(c1)
        ELSE IF appointment_index_ < 0 \/ appointment_index_ >= Len(got.val)
        THEN prompt_appointment_choosing(
                 reply_text(c1, "incorrect choice"), q,
                 "EDIT_CHOOSE_APPOINTMENT")
        ELSE prompt_edit_appointment_date(
                 [c1 EXCEPT !.ud.selected_appointment =
                               Some(got.val[appointment_index_ + 1])])

prompt_edit_appointment_time(c, q) ==
    IF c.ud.selected_appointment = None \/ c.ud.edit_appointment_data = None
    THEN raise(c)   \* KeyError
    ELSE
    LET times == get_doctor_working_hours(q)
        c1 == get(c, "DoctorCards/timeslots")
    IN  IF ~times.ok THEN raise(c1)
        ELSE return(reply_keyboard(c1, "choose new time",
                        create_keyboard(times.val, 3, TRUE,
                                        "Nazad (k vyboru daty)")),
                    "EDIT_APPOINTMENT_TIME")

choose_appointment_date(c, text, q) ==
    IF text = "Nazad (k vyboru zapisi)"
    THEN prompt_appointment_choosing(
             [c EXCEPT !.ud.selected_appointment = None], q,
             "EDIT_CHOOSE_APPOINTMENT")
    ELSE IF c.ud.edit_appointment_data = None THEN raise(c)   \* KeyError
    ELSE prompt_edit_appointment_time(
             [c EXCEPT !.ud.edit_appointment_data =
                           Some([EditDraft(c.ud) EXCEPT !.new_date = Some(text)])],
             q)

prompt_edit_confirm(c, q) ==
    IF c.ud.selected_appointment = None \/ c.ud.edit_appointment_data = None
    THEN raise(c)   \* KeyError
    ELSE IF ~q.cards_ok THEN raise(get_cards(c, 1, q))
    ELSE return(reply_keyboard(get_cards(c, 1, q), "confirm change",
                               << <<"Da", "Net">> >>),
                "EDIT_CONFIRMATION")

choose_appointment_time(c, text, q) ==
    IF c.ud.edit_appointment_data = None THEN raise(c)   \* KeyError
    ELSE IF text = "Nazad (k vyboru daty)"
    THEN prompt_edit_appointment_date(
             [c EXCEPT !.ud.edit_appointment_data =
                           Some([EditDraft(c.ud) EXCEPT !.new_date = None])])
    ELSE prompt_edit_confirm(
             [c EXCEPT !.ud.edit_appointment_data =
                           Some([EditDraft(c.ud) EXCEPT !.new_time = Some(text)])],
             q)

\* a variant of the request body that resubmits the appointment with the
\* time it already has (what C26 tells apart from the source's body)
edit_request_body_with_old_time(selected_appointment, user_uuid, dt_object) ==
    [ appointmentId   |-> selected_appointment.appointmentId,
      patientName     |-> selected_appointment.patientName,
      patientUuid     |-> user_uuid,
      phone           |-> selected_appointment.phone,
      appointmentTime |-> selected_appointment.appointmentTime,
      doctorId        |-> selected_appointment.doctorId ]

\* the request_body of confirm_edit
edit_request_body(selected_appointment, user_uuid, dt_object) ==
    [ appointmentId   |-> selected_appointment.appointmentId,
      patientName     |-> selected_appointment.patientName,
      patientUuid     |-> user_uuid,
      phone           |-> selected_appointment.phone,
      appointmentTime |-> dt_object,
      doctorId        |-> selected_appointment.doctorId ]

\* a variant of the rejection that leaves the new date and time in the
\* session (what C34 tells apart from the source's rejection)
edit_reject_keeping_new_datetime(c, m) ==
    prompt_edit_appointment_date(reply_text(c, m))

\* the rejection of confirm_edit: reply, pop new_date and new_time, prompt
\* for the date
edit_reject(c, m) ==
    prompt_edit_appointment_date(
        reply_text([c EXCEPT !.ud.edit_appointment_data = Some(EmptyEdit)], m))

confirm_edit(c, text, q) ==
    IF text = "Da"
    THEN IF c.ud.edit_appointment_data = None THEN raise(c)   \* KeyError
         ELSE IF EditDraft(c.ud).new_date = None \/ EditDraft(c.ud).new_time = None
         THEN raise(c)   \* KeyError
         ELSE
         LET date_obj == strptime_date(Val(EditDraft(c.ud).new_date))
             time_obj == strptime_time(Val(EditDraft(c.ud).new_time))
         IN  IF date_obj = None \/ time_obj = None   \* ValueError
             THEN edit_reject(c, "bad date or time format")
             ELSE IF combine(Val(date_obj), Val(time_obj)) < now
             THEN edit_reject(c, "date and time have passed")
             ELSE IF c.ud.selected_appointment = None THEN raise(c)   \* KeyError
             ELSE
             LET selected_appointment == Val(c.ud.selected_appointment)
                 request_body ==
                     edit_request_body(
                         selected_appointment,
                         IF q.uuid THEN Some("uuid") ELSE None,
                         strftime_iso(combine(Val(date_obj), Val(time_obj))))
                 c1 == put_appointment(c, selected_appointment.appointmentId,
                                       request_body, q)
             IN  IF ~q.put_ok THEN raise(c1)   \* raise_for_status
                 ELSE return([reply_text(c1, "appointment changed")
                                EXCEPT !.ud = EmptyUserData],
                             "END")
    ELSE edit_cancel(c)

\* ---- what the environment sends and answers in the two flows

\* the appointment lists the backend can hold
AppointmentLists ==
    { SelectSeq([i \in 1..MaxAppointments |-> Appt(i)],
                LAMBDA a : a.appointmentId \in S) : S \in SUBSET (1..MaxAppointments) }

EditTimeResponses == { Err, Ok(<<>>), Ok(<<"09:00:00", "15:00">>) }

Q0 == [uuid |-> TRUE, fetch_ok |-> TRUE, cards_ok |-> TRUE, times |-> Err,
       put_ok |-> TRUE, delete_ok |-> TRUE]
\* answers to the calls of prompt_appointment_choosing
QList == { [Q0 EXCEPT !.uuid = u, !.fetch_ok = f, !.cards_ok = k] :
             u \in BOOLEAN, f \in BOOLEAN, k \in BOOLEAN }
QCards == { [Q0 EXCEPT !.cards_ok = k] : k \in BOOLEAN }
QTimes == { [Q0 EXCEPT !.times = r] : r \in EditTimeResponses }
QPut == { [Q0 EXCEPT !.uuid = u, !.put_ok = b] : u \in BOOLEAN, b \in BOOLEAN }
QDelete == { [Q0 EXCEPT !.uuid = u, !.delete_ok = b] : u \in BOOLEAN, b \in BOOLEAN }

EditStates ==
    { "EDIT_CHOOSE_APPOINTMENT", "EDIT_APPOINTMENT_DATE", "EDIT_APPOINTMENT_TIME",
      "EDIT_CONFIRMATION" }
\* DELETE_COROUTINE is the state confirm_delete leaves behind when it returns
\* a coroutine object: no handler is registered for it
DeleteStates ==
    { "DELETE_CHOOSE_APPOINTMENT", "DELETE_CONFIRMATION", "DELETE_COROUTINE" }

\* the replies the user sends in a state of the two flows, chosen as in
\* StateTexts
SecondaryTexts(state) ==
    CASE state \in {"EDIT_CHOOSE_APPOINTMENT", "DELETE_CHOOSE_APPOINTMENT"} ->
            { OptionLabel(n) : n \in 1..(MaxAppointments + 1) }
                \cup { "Zapis", "Otmena" }
      [] state = "EDIT_APPOINTMENT_DATE" ->
            { strftime_date(0), "Nazad (k vyboru zapisi)", "privet" }
      [] state = "EDIT_APPOINTMENT_TIME" ->
            { "09:00", "15:00", "Nazad (k vyboru daty)", "privet" }
      [] state \in {"EDIT_CONFIRMATION", "DELETE_CONFIRMATION"} ->
            { "Da", "Net", "privet" }
      [] OTHER -> {}

\* the calls the handler of the state can reach on this reply
SecondaryOracles(state, text) ==
    CASE state \in {"EDIT_CHOOSE_APPOINTMENT", "DELETE_CHOOSE_APPOINTMENT"} -> QList
      [] state = "EDIT_APPOINTMENT_DATE" ->
            IF text = "Nazad (k vyboru zapisi)" THEN QList ELSE QTimes
      [] state = "EDIT_APPOINTMENT_TIME" ->
            IF text = "Nazad (k vyboru daty)" THEN {Q0} ELSE QCards
      [] state = "EDIT_CONFIRMATION" -> IF text = "Da" THEN QPut ELSE {Q0}
      [] state = "DELETE_CONFIRMATION" -> IF text = "Da" THEN QDelete ELSE {Q0}
      [] OTHER -> {Q0}

\* the update is handled and the backend holds what the handler's requests
\* left there
FinishSecondary(c, msg) ==
    /\ Finish(c, msg)
    /\ appointments' = c.appts
    /\ UNCHANGED <<clinics, now>>

\* the entry of the edit flow, outside a conversation
StartAppointmentEditing ==
    /\ conv_state = "NONE"
    /\ \E q \in QList :
          FinishSecondary(start_appointment_editing(Begin, q), Msg("edit", ""))

\* the entry of the delete flow, outside a conversation
StartAppointmentDeletion ==
    /\ conv_state = "NONE"
    /\ \E q \in QList :
          FinishSecondary(start_appointment_deletion(Begin, q), Msg("delete", ""))

\* a text message in a state of the edit or the delete flow
ProcessSecondary(state, handler(_, _, _)) ==
    /\ conv_state = state
    /\ \E text \in SecondaryTexts(state) : \E q \in SecondaryOracles(state, text) :
          FinishSecondary(handler(Begin, text, q), Msg("text", text))

EditChooseAppointment ==
    ProcessSecondary("EDIT_CHOOSE_APPOINTMENT", edit_choose_appointment)
ChooseAppointmentDate ==
    ProcessSecondary("EDIT_APPOINTMENT_DATE", choose_appointment_date)
ChooseAppointmentTime ==
    ProcessSecondary("EDIT_APPOINTMENT_TIME", choose_appointment_time)
ConfirmEdit == ProcessSecondary("EDIT_CONFIRMATION", confirm_edit)
DeleteChooseAppointment ==
    ProcessSecondary("DELETE_CHOOSE_APPOINTMENT", delete_choose_appointment)
ConfirmDelete == ProcessSecondary("DELETE_CONFIRMATION", confirm_delete)

\* EditHandler.cancel, in any state of the edit flow
EditCancel ==
    /\ conv_state \in EditStates
    /\ FinishSecondary(edit_cancel(Begin), Msg("/cancel", ""))

\* DeleteHandler.cancel, in any state of the delete flow
DeleteCancel ==
    /\ conv_state \in DeleteStates
    /\ FinishSecondary(delete_cancel(Begin), Msg("/cancel", ""))

\* the backend's appointments of the user change (another client, the clinic)
AppointmentsChange ==
    /\ \E l \in AppointmentLists \ {appointments} : appointments' = l
    /\ UNCHANGED <<conv_state, user_data, clinics, now,
                   keyboard, shown, lastMsg, out, requests, raised,
                   user, stored, fetched_for>>

InitSecondary ==
    /\ conv_state = "NONE"
    /\ user_data = EmptyUserData
    /\ clinics = <<>>
    /\ appointments \in AppointmentLists
    /\ now = 0
    /\ keyboard = <<>>
    /\ shown = <<>>
    /\ lastMsg = Msg("none", "")
    /\ out = <<>>
    /\ requests = <<>>
    /\ raised = FALSE
    /\ user = "A"
    /\ stored = [u \in Users |-> EmptySession]
    /\ fetched_for = NothingFetched

NextSecondary ==
    \/ StartAppointmentEditing
    \/ StartAppointmentDeletion
    \/ EditChooseAppointment
    \/ ChooseAppointmentDate
    \/ ChooseAppointmentTime
    \/ ConfirmEdit
    \/ DeleteChooseAppointment
    \/ ConfirmDelete
    \/ EditCancel
    \/ DeleteCancel
    \/ Tick
    \/ AppointmentsChange

SpecSecondary == InitSecondary /\ [][NextSecondary]_vars

\* the edit conversation on its own, the user's appointments changed by the
\* user's own updates only
NextEdit ==
    \/ StartAppointmentEditing
    \/ EditChooseAppointment
    \/ ChooseAppointmentDate
    \/ ChooseAppointmentTime
    \/ ConfirmEdit
    \/ EditCancel
    \/ Tick

SpecEdit == InitSecondary /\ [][NextEdit]_vars

\* the delete conversation on its own
NextDelete ==
    \/ StartAppointmentDeletion
    \/ DeleteChooseAppointment
    \/ ConfirmDelete
    \/ DeleteCancel
    \/ Tick
    \/ AppointmentsChange

SpecDelete == InitSecondary /\ [][NextDelete]_vars

-----------------------------------------------------------------------------
(* The booking conversation entered with prefilled slots:                   *)
(* start_appointment_creation(update, context, prefilled_data) called with  *)
(* the data a classifier extracted.                                         *)

Prefill(clinic, specialization, doctor, date, time) ==
    [ clinic |-> clinic, specialization |-> specialization, doctor |-> doctor,
      date |-> date, time |-> time ]

\* the prefilled_data the entry point is called with: a full set of slots,
\* dates on the last day of the 14-day window, right after it and beyond it,
\* a clinic the backend does not know
Prefills ==
    { Prefill(Some("North Clinic"), Some("therapist"), Some("ivanov"),
              Some(strftime_date(0)), Some("09:00")),
      Prefill(None, None, None, Some(strftime_date(DateWindow - 1)), None),
      Prefill(None, None, None, Some(strftime_date(DateWindow)), Some("15:00")),
      Prefill(None, None, None, Some(strftime_date(DateWindow + 1)), None),
      Prefill(Some("East Clinic"), None, None, None, None) }

\* the entry point called with prefilled slots, outside a conversation
StartWithPrefill ==
    /\ conv_state = "NONE"
    /\ \E prefilled_data \in Prefills, o \in O1 :
          Finish(start_appointment_creation(Begin, prefilled_data, o),
                 Msg("book", ""))
    /\ UNCHANGED <<clinics, appointments, now>>

InitPrefill ==
    /\ conv_state = "NONE"
    /\ user_data = EmptyUserData
    /\ clinics = <<Clinic1, Clinic2>>
    /\ appointments = <<>>
    /\ now = 0
    /\ keyboard = <<>>
    /\ shown = <<>>
    /\ lastMsg = Msg("none", "")
    /\ out = <<>>
    /\ requests = <<>>
    /\ raised = FALSE
    /\ user = "A"
    /\ stored = [u \in Users |-> EmptySession]
    /\ fetched_for = NothingFetched

NextPrefill ==
    \/ StartWithPrefill
    \/ CancelCommand
    \/ ProcessClinicChoice
    \/ ProcessSpecializationChoice
    \/ ProcessDoctorChoice
    \/ ProcessDateChoice
    \/ ProcessTimeChoice
    \/ ProcessConfirmation
    \/ Tick

SpecPrefill == InitPrefill /\ [][NextPrefill]_vars

-----------------------------------------------------------------------------
(* Two users: the application looks up the state and the user_data of the   *)
(* user of each update                                                      *)

\* the session of the user whose updates are being handled
Loaded ==
    [ conv_state |-> conv_state, user_data |-> user_data,
      keyboard |-> keyboard, shown |-> shown, fetched_for |-> fetched_for ]

\* the next update comes from another user: the handlers get that user's
\* conversation state and user_data (taken out of stored, where the session
\* of the user handled so far is put)
SwitchUser ==
    /\ \E u \in Users \ {user} :
          /\ user' = u
          /\ stored' = [stored EXCEPT ![user] = Loaded, ![u] = EmptySession]
          /\ conv_state' = stored[u].conv_state
          /\ user_data' = stored[u].user_data
          /\ keyboard' = stored[u].keyboard
          /\ shown' = stored[u].shown
          /\ fetched_for' = stored[u].fetched_for
    /\ lastMsg' = Msg("none", "")
    /\ out' = <<>> /\ requests' = <<>> /\ raised' = FALSE
    /\ UNCHANGED <<clinics, appointments, now>>

InitUsers ==
    /\ conv_state = "NONE"
    /\ user_data = EmptyUserData
    /\ clinics = <<Clinic1, Clinic2>>
    /\ appointments = <<>>
    /\ now = 0
    /\ keyboard = <<>>
    /\ shown = <<>>
    /\ lastMsg = Msg("none", "")
    /\ out = <<>>
    /\ requests = <<>>
    /\ raised = FALSE
    /\ user = "A"
    /\ stored = [u \in Users |-> EmptySession]
    /\ fetched_for = NothingFetched

\* user A sends every update of the booking conversation; user B starts,
\* restarts and cancels bookings and answers the clinic prompt
NextUsers ==
    \/ DefaultResponse
    \/ NewAppointmentCommand
    \/ CancelCommand
    \/ ProcessClinicChoice
    \/ user = "A" /\ ProcessSpecializationChoice
    \/ user = "A" /\ ProcessDoctorChoice
    \/ user = "A" /\ ProcessDateChoice
    \/ user = "A" /\ ProcessTimeChoice
    \/ user = "A" /\ ProcessConfirmation
    \/ SwitchUser

SpecUsers == InitUsers /\ [][NextUsers]_vars

-----------------------------------------------------------------------------
(* Vocabulary of the properties *)

BookingStates ==
    << "CHOOSE_CLINIC", "CHOOSE_SPECIALIZATION", "CHOOSE_DOCTOR", "CHOOSE_DATE",
       "CHOOSE_TIME", "CONFIRMATION" >>

\* position of a state in the booking order; 0 outside the booking steps
StepIndex(state) ==
    IF \E i \in 1..Len(BookingStates) : BookingStates[i] = state
    THEN CHOOSE i \in 1..Len(BookingStates) : BookingStates[i] = state
    ELSE 0

\* this step is the handling of the text reply `text` (the environment's own
\* steps change the clock or the backend and leave lastMsg alone)
EnvStep ==
    /\ UNCHANGED <<conv_state, user_data, keyboard, shown, lastMsg, out,
                   requests, raised>>
    /\ <<now, clinics, appointments>>' # <<now, clinics, appointments>>

Handling(text) == lastMsg' = Msg("text", text) /\ ~EnvStep

HasDraft == IsSet(user_data.create_appointment_data)
TheDraft == Draft(user_data)

\* the labels on the keyboard on the user's screen
Offered == Range(Flatten(keyboard))

-----------------------------------------------------------------------------
(* C1 *)

\* the slot dependency chain in the draft of user_data ud: specialization only
\* with clinic, doctor only with specialization, date only with doctor,
\* combined datetime only with date
DependencyChain(ud) ==
    IsSet(ud.create_appointment_data) =>
        /\ IsSet(Draft(ud).specialization) => IsSet(Draft(ud).clinic)
        /\ IsSet(Draft(ud).doctor) => IsSet(Draft(ud).specialization)
        /\ IsSet(Draft(ud).chosen_date_str) => IsSet(Draft(ud).doctor)
        /\ IsSet(Draft(ud).appointment_datetime_iso)
              => IsSet(Draft(ud).chosen_date_str)

\* C1: the draft respects the slot dependency chain in every reachable state.
\* The chain holds of the empty session, so the claim is that every update
\* keeps it; stated here of the updates whose handler returns normally (and
\* that follow an update whose handler returned normally), after any sequence
\* of choices, back-navigations, fallbacks and 'modify' replies.
C1_DependencyChain ==
    [][ (DependencyChain(user_data) /\ ~raised /\ ~raised')
          => DependencyChain(user_data') ]_vars

(* C2 *)

\* C2: at the clinic, specialization, doctor, date and time steps a reply that
\* is not on the keyboard last offered (neither a candidate nor the back label)
\* changes no draft slot and does not advance the step.
C2_UnofferedReplyChangesNothing ==
    [][ \A text \in Texts(conv_state) :
          ( /\ StepIndex(conv_state) \in 1..5
            /\ Handling(text)
            /\ text \notin Offered
            /\ ~raised' )
          => /\ user_data'.create_appointment_data = user_data.create_appointment_data
             /\ StepIndex(conv_state') <= StepIndex(conv_state) ]_vars

(* C3 *)

\* the back label of a booking state, and the draft slot its branch pops
BackLabel(state) ==
    CASE state = "CHOOSE_SPECIALIZATION" -> "Nazad (k klinike)"
      [] state = "CHOOSE_DOCTOR"         -> "Nazad (k specializacii)"
      [] state = "CHOOSE_DATE"           -> "Nazad (k vrachu)"
      [] state = "CHOOSE_TIME"           -> "Nazad (k date)"
      [] OTHER                           -> "no back label"

\* the draft slot written by the step of a state
OwnSlot(state) ==
    CASE state = "CHOOSE_CLINIC"         -> "clinic"
      [] state = "CHOOSE_SPECIALIZATION" -> "specialization"
      [] state = "CHOOSE_DOCTOR"         -> "doctor"
      [] state = "CHOOSE_DATE"           -> "chosen_date_str"
      [] OTHER                           -> "appointment_datetime_iso"

PreviousState(state) == BookingStates[StepIndex(state) - 1]

BackStates == { "CHOOSE_SPECIALIZATION", "CHOOSE_DOCTOR", "CHOOSE_DATE", "CHOOSE_TIME" }

\* this step handles the back reply of the current state
BackStep == conv_state \in BackStates /\ Handling(BackLabel(conv_state))

FellBack ==
    \E i \in 1..Len(out') :
        out'[i] \in {"no clinics available", "no specializations", "no doctors"}

C4_NoPastAppointmentPosted ==
    \A i \in 1..Len(requests) :
        requests[i].method = "POST"
            => fromisoformat(requests[i].body.appointmentTime) >= requests[i].sentAt

(* C7 *)

\* this step handles the reply 'confirm' of the confirmation step and submits
\* the create-appointment request
ConfirmSubmits ==
    /\ conv_state = "CONFIRMATION"
    /\ Handling("Podtverdit")
    /\ Len(requests') = 1
    /\ requests'[1].method = "POST"

\* C7: a 'confirm' reply that submits the create-appointment request reports
\* success or failure to the user, clears the session and ends the flow,
\* whether the backend accepts the request or rejects it.
C7_ConfirmReportsClearsEnds ==
    [][ ConfirmSubmits
          => /\ out' # <<>>
             /\ user_data' = EmptyUserData
             /\ conv_state' = "NONE" ]_vars

(* C8 *)

\* C8: the reply 'modify' of the confirmation step leaves neither the chosen
\* date nor the combined datetime in the draft, re-enters the date step and
\* keeps clinic, specialization and doctor.
C8_ModifyDiscardsDateAndTime ==
    [][ (conv_state = "CONFIRMATION" /\ Handling("Izmenit") /\ ~raised')
          => /\ conv_state' = "CHOOSE_DATE"
             /\ Draft(user_data') =
                  [TheDraft EXCEPT !.chosen_date_str = None,
                                   !.appointment_datetime_iso = None] ]_vars

(* C9 *)

\* the session right after the entry point: an empty draft, the supplied
\* prefill, and nothing of an earlier booking (the clinic prompt that the
\* entry point runs may have stored its own candidate list)
FreshSession(ud, prefill) ==
    /\ ud.create_appointment_data = Some(EmptyDraft)
    /\ ud.prefilled_info = Some(prefill)
    /\ ud.temp_specs_list = <<>>
    /\ ud.temp_doctors_list = <<>>
    /\ ud.temp_available_times = <<>>

\* C9: a user who sends /new_appointment gets a fresh booking, whatever step,
\* slots or candidate lists a booking in progress had.
C9_NewBookingIsFresh ==
    [][ ( /\ lastMsg' = Msg("/new_appointment", "")
          /\ ~EnvStep /\ ~raised' )
          => /\ FreshSession(user_data', EmptyPrefill)
             /\ conv_state' \in {"CHOOSE_CLINIC", "NONE"} ]_vars

(* C10 *)

\* the session holds no candidate list of a step other than the current one
OnlyCurrentCandidateList(state, ud) ==
    /\ ud.temp_clinics_list # <<>>     => state = "CHOOSE_CLINIC"
    /\ ud.temp_specs_list # <<>>       => state = "CHOOSE_SPECIALIZATION"
    /\ ud.temp_doctors_list # <<>>     => state = "CHOOSE_DOCTOR"
    /\ ud.temp_available_times # <<>>  => state = "CHOOSE_TIME"

\* C10: after every update whose handler returns normally, the session holds
\* no candidate list of a step other than the current one.
C10_OnlyCurrentCandidateList ==
    [][ ~raised' => OnlyCurrentCandidateList(conv_state', user_data') ]_vars

(* C5 *)

ChooseAppointmentStates == { "EDIT_CHOOSE_APPOINTMENT", "DELETE_CHOOSE_APPOINTMENT" }

\* C5: in the edit and delete flows, the appointment stored as selected on
\* the reply 'Zapis #n' is the n-th item of the list the prompt displayed,
\* even when the backend's appointments changed in between.
C5_SelectedIsTheDisplayedOne ==
    [][ \A n \in 1..(MaxAppointments + 1) :
          ( /\ conv_state \in ChooseAppointmentStates
            /\ Handling(OptionLabel(n))
            /\ IsSet(user_data'.selected_appointment) )
          => /\ n <= Len(shown)
             /\ Val(user_data'.selected_appointment) = shown[n] ]_vars

(* C6 *)

\* this step ends the edit or the delete flow after an update or delete
\* request (accepted or refused by the backend), after the user declined,
\* or after a cancellation
SecondaryTerminalBranch ==
    /\ conv_state' = "NONE"
    /\ ~EnvStep
    /\ \/ /\ conv_state \in {"EDIT_CONFIRMATION", "DELETE_CONFIRMATION"}
          /\ \/ \E i \in 1..Len(requests') :
                   requests'[i].method \in {"PUT", "DELETE"}
             \/ lastMsg' = Msg("text", "Net")
       \/ /\ conv_state \in EditStates \cup DeleteStates
          /\ lastMsg' = Msg("/cancel", "")

\* C6: whenever the edit flow or the delete flow returns the end of the
\* conversation (after a successful update or delete, after a failed delete,
\* after the user declines, after cancellation), the user's session is empty.
C6_SecondaryEndClearsSession ==
    [][ SecondaryTerminalBranch => user_data' = EmptyUserData ]_vars

(* C11 *)

\* the handler of this step sent the message m
Said(m) == ~EnvStep /\ \E i \in 1..Len(out') : out'[i] = m

\* C11 as claimed: an empty candidate set always leaves the flow in the
\* previous step (clinic after no specializations, specialization after no
\* doctors, date after no time slots), whenever the handler returns normally.
C11_EmptySetReturnsToPreviousStep ==
    [][ ~raised'
          => /\ Said("no specializations") => conv_state' = "CHOOSE_CLINIC"
             /\ Said("no doctors") => conv_state' = "CHOOSE_SPECIALIZATION"
             /\ Said("no time on this date") => conv_state' = "CHOOSE_DATE" ]_vars

\* C11 as amended: on an empty candidate set the user is informed and the
\* previous step's prompt runs.  No time slots: the chosen date is removed and
\* the flow is in the date step.  No doctors: the specialization prompt runs,
\* and the flow is in the specialization step unless that prompt finds no
\* specializations either.  No specializations: the clinic prompt runs, and
\* the flow is in the clinic step unless there are no clinics, in which case
\* the conversation ends.  (A failing backend call raises.)
C11_EmptySetRunsPreviousPrompt ==
    [][ /\ Said("no time on this date")
            => /\ ~raised' /\ conv_state' = "CHOOSE_DATE"
               /\ Draft(user_data').chosen_date_str = None
        /\ (Said("no doctors") /\ ~raised')
            => \/ conv_state' = "CHOOSE_SPECIALIZATION"
               \/ Said("no specializations")
        /\ (Said("no specializations") /\ ~raised')
            => IF Said("no clinics available")
               THEN conv_state' = "NONE"
               ELSE conv_state' = "CHOOSE_CLINIC" ]_vars

\* C11 witness: the doctor query returned nothing and the user is asked for
\* the specialization again.
C11_Witness ==
    /\ conv_state = "CHOOSE_SPECIALIZATION"
    /\ ~raised
    /\ Len(out) = 2 /\ out[1] = "no doctors" /\ out[2] = "choose specialization"

(* C12 *)

\* the states whose step keeps a candidate list in the session
CandidateStates ==
    { "CHOOSE_CLINIC", "CHOOSE_SPECIALIZATION", "CHOOSE_DOCTOR", "CHOOSE_TIME" }

CandidateLists(ud) ==
    << ud.temp_clinics_list, ud.temp_specs_list, ud.temp_doctors_list,
       ud.temp_available_times >>

\* C12: handling a reply that matches no candidate (and is not the step's
\* back or cancel label) issues no backend query: the same step is prompted
\* again from the candidate list already stored in the session.
C12_UnmatchedReplyIssuesNoQuery ==
    [][ \A text \in Texts(conv_state) :
          ( /\ conv_state \in CandidateStates
            /\ Handling(text)
            /\ text \notin Offered
            /\ ~raised' )
          => /\ requests' = <<>>
             /\ conv_state' = conv_state
             /\ CandidateLists(user_data') = CandidateLists(user_data) ]_vars

(* C13 *)

\* this step handles a cancellation of the booking: 'Otmena' in the clinic
\* step, 'Otmenit' in the confirmation step, or /cancel in any booking step
CancelStep ==
    /\ ~EnvStep
    /\ \/ conv_state = "CHOOSE_CLINIC" /\ lastMsg' = Msg("text", "Otmena")
       \/ conv_state = "CONFIRMATION" /\ lastMsg' = Msg("text", "Otmenit")
       \/ StepIndex(conv_state) \in 1..6 /\ lastMsg' = Msg("/cancel", "")

\* C13: cancelling a booking clears the session and ends the conversation,
\* and the handler does not raise.
C13_CancelClearsAndEnds ==
    [][ CancelStep
          => /\ user_data' = EmptyUserData
             /\ conv_state' = "NONE"
             /\ ~raised' ]_vars

\* C13 witness: a complete draft was cancelled at the confirmation step.
C13_Witness ==
    /\ lastMsg = Msg("text", "Otmenit")
    /\ conv_state = "NONE"
    /\ user_data = EmptyUserData
    /\ out = <<"creation cancelled">>

(* C14 *)

\* the reply is a time of the stored list whose combination with the chosen
\* date is earlier than the clock
Elapsed(text) ==
    /\ HasDraft
    /\ text \in Range(user_data.temp_available_times)
    /\ IsSet(TheDraft.chosen_date_str)
    /\ IsSet(strptime_date(Val(TheDraft.chosen_date_str)))
    /\ IsSet(strptime_time(text))
    /\ combine(Val(strptime_date(Val(TheDraft.chosen_date_str))),
               Val(strptime_time(text))) < now

\* C14: when the chosen date and time have already elapsed, the user gets an
\* explanatory message and is back in the date step, and the draft holds no
\* combined datetime.
C14_ElapsedReturnsToDateStep ==
    [][ \A text \in Texts("CHOOSE_TIME") :
          (conv_state = "CHOOSE_TIME" /\ Handling(text) /\ Elapsed(text))
          => /\ ~raised'
             /\ conv_state' = "CHOOSE_DATE"
             /\ out' = <<"date and time already passed", "choose date">>
             /\ Draft(user_data').appointment_datetime_iso = None ]_vars

\* C14 witness: the time 09:00 of the first day was chosen after 09:00.
C14_Witness ==
    /\ conv_state = "CHOOSE_DATE"
    /\ now > 0
    /\ lastMsg = Msg("text", "09:00")
    /\ out = <<"date and time already passed", "choose date">>
    /\ HasDraft /\ TheDraft.chosen_date_str = Some(strftime_date(0))

(* C15 *)

ConfirmationReplies == { "Podtverdit", "Izmenit", "Otmenit" }

\* C15: in the confirmation step a reply other than confirm, modify and
\* cancel repeats the confirmation prompt, leaves the session (the draft
\* included) and the step unchanged and issues no backend request.
C15_OtherReplyRepeatsConfirmation ==
    [][ \A text \in Texts("CONFIRMATION") \ ConfirmationReplies :
          (conv_state = "CONFIRMATION" /\ Handling(text))
          => /\ ~raised'
             /\ conv_state' = "CONFIRMATION"
             /\ user_data' = user_data
             /\ requests' = <<>>
             /\ out' = <<"choose one of the options", "confirm appointment">>
             /\ keyboard' = << <<"Podtverdit", "Izmenit", "Otmenit">> >> ]_vars

\* C15 witness: the lower-case 'podtverdit' was answered with the prompt, the
\* complete draft still in the session.
C15_Witness ==
    /\ conv_state = "CONFIRMATION"
    /\ lastMsg = Msg("text", "podtverdit")
    /\ out = <<"choose one of the options", "confirm appointment">>
    /\ HasDraft /\ IsSet(TheDraft.appointment_datetime_iso)

(* C16 *)

\* the date keyboard C16 describes: the prefilled date alone when it is one
\* of the 14 days today .. today+13, the 14 days otherwise
ExpectedDateKeyboard(ud) ==
    LET prefilled_date == Val(ud.prefilled_info).date
        d == IF IsSet(prefilled_date) THEN strptime_date(Val(prefilled_date))
             ELSE None
    IN  IF IsSet(d) /\ Val(d) >= Today /\ Val(d) <= Today + DateWindow - 1
        THEN create_keyboard(<<strftime_date(Val(d))>>, 1, TRUE, "Nazad (k vrachu)")
        ELSE create_keyboard([i \in 1..DateWindow |-> strftime_date(Today + i - 1)],
                             3, TRUE, "Nazad (k vrachu)")

\* C16: the date prompt offers the prefilled date alone exactly when it is
\* one of the 14 days today .. today+13, and otherwise those 14 days.
C16_DatePromptOffers ==
    [][ (Said("choose date") /\ ~raised')
          => keyboard' = ExpectedDateKeyboard(user_data') ]_vars

(* C17 *)

\* a prefilled time is present and is one of the slots fetched for the
\* chosen date
PrefilledTimeAvailable ==
    /\ IsSet(user_data.prefilled_info)
    /\ IsSet(Val(user_data.prefilled_info).time)
    /\ Val(Val(user_data.prefilled_info).time)
          \in Range(user_data.temp_available_times)

\* C17: at the time step, when the prefilled time is one of the available
\* slots, no other time is accepted: a reply with another slot leaves the
\* draft as it is and the flow in the time step.
C17_OnlyPrefilledTimeAccepted ==
    [][ \A text \in Texts("CHOOSE_TIME") :
          ( /\ conv_state = "CHOOSE_TIME"
            /\ Handling(text)
            /\ PrefilledTimeAvailable
            /\ text # Val(Val(user_data.prefilled_info).time)
            /\ text # "Nazad (k date)"
            /\ ~raised' )
          => /\ conv_state' = "CHOOSE_TIME"
             /\ Draft(user_data') = TheDraft ]_vars

(* C18 *)

\* the candidate set of the current step: the names of the list fetched for
\* the step and stored in the session, the times fetched for the chosen date,
\* and, for the date step, the dates its prompt offers
StepCandidates ==
    CASE conv_state = "CHOOSE_CLINIC" ->
            Range(Names(user_data.temp_clinics_list))
      [] conv_state = "CHOOSE_SPECIALIZATION" ->
            Range(Names(user_data.temp_specs_list))
      [] conv_state = "CHOOSE_DOCTOR" ->
            Range(Names(user_data.temp_doctors_list))
      [] conv_state = "CHOOSE_DATE" -> Offered \ { "Nazad (k vrachu)" }
      [] conv_state = "CHOOSE_TIME" -> Range(user_data.temp_available_times)
      [] OTHER -> {}

\* C18: in a flow started with prefilled data, whenever the handling of a
\* reply writes the slot of its step into the draft, the reply is a member of
\* the candidate set of that step.
C18_WrittenSlotsComeFromCandidates ==
    [][ \A text \in Texts(conv_state) :
          ( /\ StepIndex(conv_state) \in 1..5
            /\ Handling(text)
            /\ ~raised'
            /\ HasDraft
            /\ IsSet(user_data'.create_appointment_data)
            /\ IsSet(Draft(user_data')[OwnSlot(conv_state)])
            /\ Draft(user_data')[OwnSlot(conv_state)]
                  # TheDraft[OwnSlot(conv_state)] )
          => text \in StepCandidates ]_vars

(* C19 *)

\* C19: when a free text outside a conversation is classified as a booking
\* intent and the booking flow starts, the prefilled slots of the flow are the
\* data the classifier extracted from the text.
C19_BookingIntentStartsWithExtractedData ==
    [][ \A text \in FreeTexts :
          ( /\ conv_state = "NONE"
            /\ Handling(text)
            /\ ~raised'
            /\ conv_state' = "CHOOSE_CLINIC" )
          => user_data'.prefilled_info = Some(LlmData(text)) ]_vars

(* C20 *)

\* the handling of this step accepted a choice: the flow moved one step forward
ForwardStep ==
    /\ StepIndex(conv_state) \in 1..5
    /\ lastMsg'.kind = "text" /\ ~EnvStep
    /\ ~raised'
    /\ StepIndex(conv_state') = StepIndex(conv_state) + 1

C21_BackendFailureDoesNotEscape ==
    [][ (~EnvStep /\ requests' # <<>>) => (~raised' /\ out' # <<>>) ]_vars

(* C22 *)

\* the handling of this step sent a request to the backend and an exception
\* left the handler: the request failed
FailedCall == ~EnvStep /\ raised' /\ requests' # <<>>

Slots ==
    { "clinic", "specialization", "doctor", "chosen_date_str",
      "appointment_datetime_iso" }

\* C22 as claimed: after a message whose backend call failed, the draft, the
\* candidate lists and the step are what they were before the message.
C22_FailedCallChangesNothing ==
    [][ (FailedCall /\ StepIndex(conv_state) \in 1..6) =>
          /\ conv_state' = conv_state
          /\ user_data'.create_appointment_data = user_data.create_appointment_data
          /\ CandidateLists(user_data') = CandidateLists(user_data) ]_vars

\* C22 as the source has it: after a message whose backend call failed the
\* step is the same and nothing is undone or cleared: the session holds what
\* the handler wrote before the failing call. The draft differs at most in the
\* slot of the step (an accepted choice stays written) and in the slot the
\* step's back reply removes, and the candidate list the accepted choice was
\* taken from stays removed.
C22_FailedCallKeepsStepAndWrites ==
    [][ \A text \in Texts(conv_state) :
          (FailedCall /\ StepIndex(conv_state) \in 1..6 /\ Handling(text)) =>
             /\ conv_state' = conv_state
             /\ HasDraft => IsSet(user_data'.create_appointment_data)
             /\ HasDraft =>
                  \A sl \in Slots \ { OwnSlot(conv_state),
                                      IF conv_state \in BackStates
                                      THEN OwnSlot(PreviousState(conv_state))
                                      ELSE OwnSlot(conv_state) } :
                     Draft(user_data')[sl] = TheDraft[sl]
             /\ (HasDraft /\ StepIndex(conv_state) \in 1..4
                   /\ text \in StepCandidates)
                  => /\ IsSet(Draft(user_data')[OwnSlot(conv_state)])
                     /\ StepIndex(conv_state) \in 1..3
                          => CandidateLists(user_data')[StepIndex(conv_state)]
                                = <<>> ]_vars

\* C22 witness: the clinic choice was accepted, the specialization query
\* failed: the flow is still in the clinic step, the clinic is in the draft and
\* the clinic list is gone
C22_Witness ==
    /\ conv_state = "CHOOSE_CLINIC"
    /\ raised
    /\ lastMsg = Msg("text", "North Clinic")
    /\ requests # <<>>
    /\ HasDraft /\ IsSet(TheDraft.clinic)
    /\ user_data.temp_clinics_list = <<>>

(* C23 *)

\* a handler of the booking flow returned ConversationHandler.END: a booking
\* step was left for no conversation, or the entry's clinic prompt ended the
\* flow it had just started
BookingReturnedEnd ==
    /\ ~EnvStep
    /\ ~raised'
    /\ conv_state' = "NONE"
    /\ \/ StepIndex(conv_state) \in 1..6
       \/ conv_state = "NONE" /\ Said("no clinics available")

\* C23: whenever the booking flow returns the end of the conversation, the
\* user's session is empty.
C23_BookingEndClearsSession ==
    [][ BookingReturnedEnd => user_data' = EmptyUserData ]_vars

(* C24 *)

\* C24: a free text outside a conversation is never answered with an
\* exception of the classifier: when the handling sends no request to the
\* backend (no flow was started, so that the only thing that can fail is the
\* classifier), no exception leaves the handler and the user gets a reply.
C24_ClassifierFailureAsksToRephrase ==
    [][ ( /\ conv_state = "NONE"
          /\ lastMsg'.kind = "text"
          /\ ~EnvStep
          /\ requests' = <<>> )
          => (~raised' /\ out' # <<>>) ]_vars

(* C25 *)

\* C25: in the edit and delete flows, a handler that finds no uuid of the
\* user and sends the registration prompt sends no request to the backend
\* and makes no state transition.
C25_NoUuidPromptsAndStays ==
    [][ Said("please register")
          => /\ requests' = <<>>
             /\ conv_state' = conv_state ]_vars

(* C26 *)

\* the appointment the edit flow has selected, and the date and time chosen
\* for it, as the ISO string of their combination
SelectedAppointment == Val(user_data.selected_appointment)

NewAppointmentTime ==
    strftime_iso(combine(Val(strptime_date(Val(EditDraft(user_data).new_date))),
                         Val(strptime_time(Val(EditDraft(user_data).new_time)))))

OptionLists == UNION { [1..n -> {"a", "b"}] : n \in 0..MaxOptions }

\* a call of _create_keyboard and its arguments
KeyboardCalls ==
    [ kind : {"_create_keyboard"}, text : {""},
      options : OptionLists, items_per_row : 1..3,
      add_back_button : BOOLEAN, back_button_text : {"Nazad"} ]

InitKeyboard ==
    /\ conv_state = "NONE"
    /\ user_data = EmptyUserData
    /\ clinics = <<>>
    /\ appointments = <<>>
    /\ now = 0
    /\ keyboard = <<>>
    /\ shown = <<>>
    /\ lastMsg \in KeyboardCalls
    /\ out = <<>>
    /\ requests = <<>>
    /\ raised = FALSE
    /\ user = "A"
    /\ stored = [u \in Users |-> EmptySession]
    /\ fetched_for = NothingFetched

\* the call is made and the keyboard is sent
CreateKeyboard ==
    /\ lastMsg.kind = "_create_keyboard"
    /\ out = <<>>
    /\ keyboard' = create_keyboard(lastMsg.options, lastMsg.items_per_row,
                                   lastMsg.add_back_button,
                                   lastMsg.back_button_text)
    /\ out' = <<"keyboard">>
    /\ UNCHANGED <<conv_state, user_data, clinics, appointments, now, shown,
                   lastMsg, requests, raised, user, stored, fetched_for>>

NextKeyboard == CreateKeyboard

SpecKeyboard == InitKeyboard /\ [][NextKeyboard]_vars

(* C27 *)

\* the session of user u: current step, user_data (slots and candidate lists)
\* and screen
Session(u) == IF u = user THEN Loaded ELSE stored[u]

KeyboardBuilt == lastMsg.kind = "_create_keyboard" /\ out = <<"keyboard">>

\* C28: the keyboard built for n options with k items per row has ceil(n/k)
\* rows of options, every row but the last of them with k options, which
\* hold the options in the given order; when the back button is requested
\* exactly one more row follows, with the back label alone.
C28_KeyboardLayout ==
    KeyboardBuilt =>
        LET n == Len(lastMsg.options)
            k == lastMsg.items_per_row
            rows == (n + k - 1) \div k
        IN  /\ Len(keyboard) = rows + (IF lastMsg.add_back_button THEN 1 ELSE 0)
            /\ Flatten(SubSeq(keyboard, 1, rows)) = lastMsg.options
            /\ \A i \in 1..rows :
                  Len(keyboard[i]) = IF i < rows THEN k ELSE n - (rows - 1) * k
            /\ lastMsg.add_back_button
                  => keyboard[rows + 1] = <<lastMsg.back_button_text>>

\* C28 witness: 5 options, 1 per row, with back: 6 rows, the last one the
\* back label
C28_Witness ==
    /\ KeyboardBuilt
    /\ Len(lastMsg.options) = 5
    /\ lastMsg.items_per_row = 1
    /\ lastMsg.add_back_button
    /\ Len(keyboard) = 6
    /\ keyboard[6] = <<"Nazad">>

(* C29 *)

\* the last update ended in the clinic prompt, and the backend's clinics are
\* still the ones the prompt stored
ClinicPromptStands ==
    /\ conv_state = "CHOOSE_CLINIC"
    /\ ~raised
    /\ out # <<>> /\ out[Len(out)] = "choose clinic"
    /\ user_data.temp_clinics_list # <<>>
    /\ user_data.temp_clinics_list = MapSeq(clinics, TitleClinic)

\* C29: when the clinic prompt is run again without a valid choice in between
\* (the reply names no clinic of the list) and the backend answers as before,
\* the session holds the same clinic list, the flow is in the clinic step
\* and the same keyboard is sent.
C29_ClinicPromptIsIdempotent ==
    [][ \A text \in Texts("CHOOSE_CLINIC") :
          ( /\ ClinicPromptStands
            /\ Handling(text)
            /\ text \notin StepCandidates
            /\ text # "Otmena"
            /\ ~raised' )
          => /\ conv_state' = "CHOOSE_CLINIC"
             /\ user_data'.temp_clinics_list = user_data.temp_clinics_list
             /\ keyboard' = keyboard
             /\ out'[Len(out')] = "choose clinic" ]_vars

\* C29 witness: the clinic prompt has run for the second time, on a reply that
\* names no clinic, and the stored list is the backend's
C29_Witness ==
    /\ conv_state = "CHOOSE_CLINIC"
    /\ ~raised
    /\ lastMsg = Msg("text", "privet")
    /\ out = <<"choose a clinic from the list", "choose clinic">>
    /\ Len(user_data.temp_clinics_list) = 2
    /\ user_data.temp_clinics_list = MapSeq(clinics, TitleClinic)

(* C30 *)

\* C30: a create-appointment request is sent only by the handling of the
\* reply 'Podtverdit' in the confirmation step, with the doctor id and the
\* combined datetime of the draft, and whenever the flow is in the
\* confirmation step the draft holds a doctor and a combined datetime.
C30_PostOnlyFromCompleteConfirmation ==
    [][ /\ \A i \in 1..Len(requests') :
             (~EnvStep /\ requests'[i].method = "POST") =>
                /\ conv_state = "CONFIRMATION"
                /\ lastMsg' = Msg("text", "Podtverdit")
                /\ HasDraft
                /\ IsSet(TheDraft.doctor)
                /\ IsSet(TheDraft.appointment_datetime_iso)
                /\ requests'[i].body.doctorId = Val(TheDraft.doctor).doctorId
                /\ requests'[i].body.appointmentTime
                      = Val(TheDraft.appointment_datetime_iso)
        /\ conv_state' = "CONFIRMATION" =>
             /\ IsSet(user_data'.create_appointment_data)
             /\ IsSet(Draft(user_data').doctor)
             /\ IsSet(Draft(user_data').appointment_datetime_iso) ]_vars

(* C31 *)

\* the create-appointment requests sent while handling the update of this step
Submitted == { i \in 1..Len(requests') : requests'[i].method = "POST" }

\* C31: whenever a create-appointment request is submitted, its doctorId is
\* the id of a doctor picked from a doctor list that was fetched for the
\* clinic and the specialization the draft holds at the submission.
C31_DoctorFetchedForDraftClinicAndSpecialization ==
    [][ (~EnvStep /\ Submitted # {}) =>
           /\ HasDraft
           /\ IsSet(TheDraft.doctor)
           /\ \A i \in Submitted :
                 requests'[i].body.doctorId = Val(TheDraft.doctor).doctorId
           /\ fetched_for.doctor
                 = Some([clinic |-> TheDraft.clinic,
                         specialization |-> TheDraft.specialization]) ]_vars

(* C32 *)

\* the date part and the time part "HH:MM" of an appointmentTime
DatePart(iso) == strftime_date(fromisoformat(iso) \div TicksPerDay)
TimePart(iso) == strftime_time(fromisoformat(iso) % TicksPerDay)

\* C32: whenever a create-appointment request is submitted, the time part of
\* its appointmentTime is a member of the time-slot list that was fetched for
\* the doctor and the date the draft holds at the submission, and its date
\* part is that date.
C32_TimeFetchedForDraftDoctorAndDate ==
    [][ (~EnvStep /\ Submitted # {}) =>
           /\ HasDraft
           /\ IsSet(fetched_for.time)
           /\ Val(fetched_for.time).doctor = TheDraft.doctor
           /\ Some(Val(fetched_for.time).date) = TheDraft.chosen_date_str
           /\ \A i \in Submitted :
                 /\ TimePart(requests'[i].body.appointmentTime)
                       \in Range(Val(fetched_for.time).times)
                 /\ DatePart(requests'[i].body.appointmentTime)
                       = Val(fetched_for.time).date
                 /\ requests'[i].body.doctorId = Val(TheDraft.doctor).doctorId ]_vars

\* a request is submitted for a time picked after the user changed the
\* details of a first pass ('Izmenit') and went back to pick another doctor
C32_Witness ==
    /\ lastMsg = Msg("text", "Podtverdit")
    /\ \E i \in 1..Len(requests) :
          /\ requests[i].method = "POST"
          /\ requests[i].body.doctorId = 2
          /\ requests[i].body.appointmentTime = strftime_iso(combine(DateWindow, 1))
          /\ requests[i].sentAt > 0

(* C33 *)

\* the delete requests sent while handling the update of this step
DeleteRequests == { i \in 1..Len(requests') : requests'[i].method = "DELETE" }

\* C33: a delete request is issued only while handling the reply 'Da' in the
\* delete flow's confirmation step, and it targets the appointmentId of the
\* appointment stored as selected in the session.
C33_DeleteOnlyOnYesForSelected ==
    [][ (~EnvStep /\ DeleteRequests # {}) =>
           /\ conv_state = "DELETE_CONFIRMATION"
           /\ lastMsg' = Msg("text", "Da")
           /\ IsSet(user_data.selected_appointment)
           /\ Cardinality(DeleteRequests) = 1
           /\ \A i \in DeleteRequests :
                 requests'[i].id = Val(user_data.selected_appointment).appointmentId
      ]_vars

\* 'Da' was handled in the confirmation step: the delete request for the
\* second appointment was sent and the backend holds it no more
C33_Witness ==
    /\ lastMsg = Msg("text", "Da")
    /\ conv_state = "NONE"
    /\ \E i \in 1..Len(requests) :
          requests[i].method = "DELETE" /\ requests[i].id = 2
    /\ appointments = <<Appt(1)>>
    /\ out = <<"appointment deleted">>

(* C34 *)

\* the update requests sent while handling the update of this step
UpdateRequests == { i \in 1..Len(requests') : requests'[i].method = "PUT" }

\* the new date and the new time of the session parse and their combination
\* is not earlier than the clock
NewDatetimeAcceptable ==
    /\ IsSet(user_data.edit_appointment_data)
    /\ IsSet(EditDraft(user_data).new_date)
    /\ IsSet(EditDraft(user_data).new_time)
    /\ IsSet(strptime_date(Val(EditDraft(user_data).new_date)))
    /\ IsSet(strptime_time(Val(EditDraft(user_data).new_time)))
    /\ combine(Val(strptime_date(Val(EditDraft(user_data).new_date))),
               Val(strptime_time(Val(EditDraft(user_data).new_time)))) >= now

\* C34: in the edit flow an update request is submitted only by the reply
\* 'Da' in the confirmation step when the new date and time parse and their
\* combination is not earlier than the current moment; when 'Da' is given
\* and they do not, no request is sent, the new date and time are removed
\* from the session and the flow is in the edit flow's date step.
C34_UpdateOnlyForParsedFutureDatetime ==
    [][ /\ (~EnvStep /\ UpdateRequests # {}) =>
              /\ conv_state = "EDIT_CONFIRMATION"
              /\ lastMsg' = Msg("text", "Da")
              /\ NewDatetimeAcceptable
              /\ \A i \in UpdateRequests : requests'[i].sentAt = now
        /\ ( /\ ~EnvStep
             /\ conv_state = "EDIT_CONFIRMATION"
             /\ lastMsg' = Msg("text", "Da")
             /\ ~NewDatetimeAcceptable ) =>
              /\ requests' = <<>>
              /\ ~raised'
              /\ user_data'.edit_appointment_data = Some(EmptyEdit)
              /\ conv_state' = "EDIT_APPOINTMENT_DATE"
              /\ user_data'.selected_appointment = user_data.selected_appointment
      ]_vars

\* 'Da' was given for a datetime that had passed by then: the flow is in the
\* date step again, nothing was sent and the new date and time are gone
C34_Witness ==
    /\ lastMsg = Msg("text", "Da")
    /\ out = <<"date and time have passed", "choose new date">>
    /\ conv_state = "EDIT_APPOINTMENT_DATE"
    /\ requests = <<>>
    /\ user_data.edit_appointment_data = Some(EmptyEdit)
    /\ IsSet(user_data.selected_appointment)

(* C35 *)

\* C35: in the appointment-selection step of the edit and delete flows the
\* reply 'Otmena' cancels the flow: the session is cleared and the flow ends,
\* with no corrective message and no new list of the appointments.
C35_CancelLabelCancelsSelection ==
    [][ ( /\ ~EnvStep
          /\ conv_state \in ChooseAppointmentStates
          /\ lastMsg' = Msg("text", "Otmena") ) =>
           /\ user_data' = EmptyUserData
           /\ conv_state' = "NONE"
           /\ "choose a correct appointment" \notin Range(out')
           /\ "appointment list" \notin Range(out') ]_vars

(* C36 *)

\* C36: in the delete flow's confirmation step a reply other than 'Da' or
\* 'Net' sends the confirmation prompt again and leaves the flow in the
\* confirmation step with the selected appointment unchanged, so that a
\* following 'Da' or 'Net' is handled by the confirmation step.
C36_OtherReplyRepeatsDeleteConfirmation ==
    [][ ( /\ ~EnvStep
          /\ conv_state = "DELETE_CONFIRMATION"
          /\ lastMsg'.kind = "text"
          /\ lastMsg'.text \notin {"Da", "Net"} ) =>
           /\ "confirm deletion" \in Range(out')
           /\ conv_state' = "DELETE_CONFIRMATION"
           /\ user_data'.selected_appointment = user_data.selected_appointment
      ]_vars

(* C37 *)

\* C37: the booking flow never skips a step forward: handling one message
\* leaves the flow in the same step, in an earlier step, outside the
\* conversation or in the immediately following step (from outside the
\* conversation: in the clinic step); Confirmation is entered only from the
\* time step, and the time step only from the date step.
C37_NoStepSkippedForward ==
    [][ /\ StepIndex(conv_state') <= StepIndex(conv_state) + 1
        /\ (conv_state' = "CONFIRMATION" /\ conv_state # "CONFIRMATION")
              => conv_state = "CHOOSE_TIME"
        /\ (conv_state' = "CHOOSE_TIME" /\ conv_state # "CHOOSE_TIME")
              => conv_state = "CHOOSE_DATE" ]_vars

\* the flow has moved step by step into Confirmation, the draft holding a
\* clinic, a specialization, a doctor, a date and the combined datetime
C37_Witness ==
    /\ conv_state = "CONFIRMATION"
    /\ lastMsg = Msg("text", "15:00")
    /\ HasDraft
    /\ IsSet(TheDraft.clinic) /\ IsSet(TheDraft.specialization)
    /\ IsSet(TheDraft.doctor) /\ IsSet(TheDraft.chosen_date_str)
    /\ IsSet(TheDraft.appointment_datetime_iso)

(* C38 *)

\* the prompt a reply comes from: 3 the doctor prompt, 2 the specialization
\* prompt, 1 the clinic prompt (each sends its question or, finding no
\* candidate, its fallback message), 0 any other reply
PromptRank(m) ==
    CASE m \in {"choose doctor", "no doctors"}                  -> 3
      [] m \in {"choose specialization", "no specializations"}  -> 2
      [] m \in {"choose clinic", "no clinics available"}        -> 1
      [] OTHER                                                  -> 0

FallbackMessages == { "no doctors", "no specializations", "no clinics available" }

\* C38: handling one message of the booking flow ends in a defined step; a
\* chain of empty-candidate fallbacks only moves to strictly earlier prompts
\* (doctor, then specialization, then clinic), so it runs at most three
\* prompts and at most three backend queries, whatever the backend returns.
C38_FallbackChainOnlyMovesBack ==
    [][ ~EnvStep =>
          /\ conv_state' \in Range(BookingStates) \cup {"NONE"}
          /\ \A i, j \in 1..Len(out') :
                (i < j /\ out'[i] \in FallbackMessages /\ PromptRank(out'[j]) > 0)
                   => PromptRank(out'[j]) < PromptRank(out'[i])
          /\ Cardinality({ i \in 1..Len(out') : PromptRank(out'[i]) > 0 }) <= 3
          /\ Len(requests') <= 3 ]_vars

\* a chain of full length: no doctors, then no specializations, then no
\* clinics, three queries, and the conversation is over
C38_Witness ==
    /\ out = <<"no doctors", "no specializations", "no clinics available">>
    /\ Len(requests) = 3
    /\ conv_state = "NONE"
    /\ ~raised

(* C39 *)

\* the clinic prompt ran and its query was answered: the clinic query is the
\* last request of the update and the handler did not raise
ClinicQueryAnswered ==
    /\ ~raised
    /\ requests # <<>>
    /\ requests[Len(requests)].method = "GET"
    /\ requests[Len(requests)].endpoint \in {"ClinicCards/", "ClinicCards/name"}

\* the clinics the backend holds for the clinic prompt's query: those of the
\* prefilled clinic name (compared in lower case) when there is one, all
\* clinics otherwise
ClinicsFound ==
    IF IsSet(user_data.prefilled_info)
       /\ IsSet(Val(user_data.prefilled_info).clinic)
    THEN SelectSeq(clinics,
             LAMBDA k : lower(k.name)
                          = lower(Val(Val(user_data.prefilled_info).clinic)))
    ELSE clinics

\* C39: when the clinic prompt finds no clinics (the backend holds none, or
\* none of the prefilled name), its last reply informs the user and the
\* conversation ends, also when the prompt ran as the fallback of an empty
\* specialization list or on back-navigation; and the user is told that
\* there are no clinics only then.
C39_NoClinicsEndsConversation ==
    [][ ~EnvStep =>
          /\ (ClinicQueryAnswered' /\ ClinicsFound' = <<>>) =>
                /\ out'[Len(out')] = "no clinics available"
                /\ conv_state' = "NONE"
          /\ Said("no clinics available") =>
                /\ ClinicQueryAnswered' /\ ClinicsFound' = <<>>
                /\ conv_state' = "NONE" ]_vars

\* the clinic prompt ran as the fallback of an empty specialization list,
\* found no clinics, and the conversation is over
C39_Witness ==
    /\ out = <<"no specializations", "no clinics available">>
    /\ lastMsg \in { Msg("text", "Nazad (k specializacii)"), Msg("text", "Therapist") }
    /\ conv_state = "NONE"
    /\ clinics = <<>>
    /\ ~raised

(* C40 *)

\* C40: back-navigation in the edit flow undoes exactly one choice.  The
\* back reply at the date step removes the selected appointment, leaves the
\* rest of the session as it was and returns to the appointment list; the
\* back reply at the time step removes the new date, leaves the selected
\* appointment and the rest of the session as they were and returns to the
\* date step; neither issues an update request.
C40_EditBackUndoesOneChoice ==
    [][ /\ ( /\ ~EnvStep
             /\ conv_state = "EDIT_APPOINTMENT_DATE"
             /\ lastMsg' = Msg("text", "Nazad (k vyboru zapisi)") ) =>
              /\ user_data' = [user_data EXCEPT !.selected_appointment = None]
              /\ conv_state' = "EDIT_CHOOSE_APPOINTMENT"
              /\ UpdateRequests = {}
        /\ ( /\ ~EnvStep
             /\ conv_state = "EDIT_APPOINTMENT_TIME"
             /\ lastMsg' = Msg("text", "Nazad (k vyboru daty)") ) =>
              /\ IsSet(user_data.edit_appointment_data)
              /\ user_data'
                   = [user_data EXCEPT !.edit_appointment_data =
                         Some([EditDraft(user_data) EXCEPT !.new_date = None])]
              /\ conv_state' = "EDIT_APPOINTMENT_DATE"
              /\ UpdateRequests = {} ]_vars

====
